---- MODULE Spec2Model ----
(***************************************************************************)
(* Model of the sync engine of proton-drive-sync: the job queue            *)
(* (src/src/jobs.ts, src/src/db/schema.ts), the sync command with its      *)
(* debounce buffer and its one-shot and watch modes (src/unnamed/part_005),*)
(* and the remote operations the executor calls (src/unnamed/part_000,     *)
(* src/unnamed/part_003).  The file-change service, the local file system  *)
(* and the remote drive are the environment.                               *)
(***************************************************************************)
EXTENDS Integers, Sequences, FiniteSets, TLC

(***************************************************************************)
(* Program constants.                                                      *)
(***************************************************************************)
MAX_RETRIES == 10
BASE_RETRY_DELAY_MS == 1000
MAX_RETRY_DELAY_MS == 300000

(***************************************************************************)
(* Bounds of the model.                                                    *)
(***************************************************************************)
\* File-system changes the environment makes in one behaviour.
MaxEvents == 2
\* Transient failures (network, drive) the environment injects in one behaviour.
MaxFailures == 1
\* Retries (counted from the first) whose jitter is explored at both ends of
\* its range; later retries take the least jitter.
JitterDepth == 1
\* Processes started in one behaviour of the one-shot specification.
MaxRuns == 2
\* The bookkeeping counts attempts, visits, failures and successes of a row
\* up to this number.
HistCap == 12
\* Changes and transient failures of one behaviour of the retry specification:
\* enough for a row to fail on its first attempt and on each of its retries.
RetryEvents == 11
RetryFailures == 11

\* The configured watch roots (config.sync_dirs, canonicalized) and the
\* relative paths the environment touches.  "a" is a file, "d" a directory.
SyncDirs == <<"/home/u/docs", "/home/u/pics">>
Roots == {SyncDirs[i] : i \in DOMAIN SyncDirs}
Names == {"a", "b", "d"}
LocalPaths == Roots \X Names

PENDING == "PENDING"
SYNCED == "SYNCED"
BLOCKED == "BLOCKED"
CREATE == "CREATE"
UPDATE == "UPDATE"
DELETE == "DELETE"

NoJob == [id |-> 0]
Null == "null"

VARIABLES
    \* ---- the embedded store (survives the process)
    syncJobs,        \* sync_jobs rows, in id order: row i has id i
    clocks,          \* clocks table: root -> clock, 0 when there is no row
    flags,           \* flags table: the flags that are set, each <<name, variant>>
    signals,         \* signals table: the signals sent and not consumed
    \* ---- the file-change service process and the daemon's connection to it
    watchmanUp,      \* whether the service process is running
    connectPc,       \* connectWatchman: "idle" | "checked" | "connected"
    wasRunning,      \* connectWatchman: const wasRunning
    upBefore,        \* bookkeeping: the service ran when connectWatchman was called
    nShutdowns,      \* bookkeeping: `watchman shutdown-server` commands the daemon ran
    nSpared,         \* bookkeeping: shutdownWatchman calls that left the service alone
    \* ---- one folder of the drive and a lookup in it
    children,        \* what iterateFolderChildren yields for the folder, in order
    findRun,         \* the last find-by-name call: its arguments, result and reads
    \* ---- the folder tree of the drive and a call of ensureRemotePath on it
    tree,            \* the folders under the root folder, each the sequence of names to it
    ensureRun,       \* the last ensureRemotePath call: arguments, drive calls, result
    \* ---- the timers of the event loop, as far as the debounce needs them
    timers,          \* the due times (ms) of the timeouts that are armed
    timerRef,        \* part_005: let debounceTimer, the due time of its timeout or 0 (null)
    lastBatchAt,     \* bookkeeping: when the last batch arrived
    config,          \* watcher.ts: the sync directories of the configuration in force
    pendingDirs,     \* watcher.ts: directories whose step of Promise.all has not settled
    listeners,       \* watcher.ts: the 'subscription' listeners registered on the client
    activeSubscriptions, \* watcher.ts: let activeSubscriptions
    subscriptionMap, \* watcher.ts: const subscriptionToSourcePath
    lastEvent,       \* bookkeeping: the last subscription event and how it was handled
    \* ---- the process
    run,             \* "off" | "oneshot" | "watch"
    dryRun,          \* part_005: let dryRun
    pendingChanges,  \* part_005: the Map name -> FileChange, in insertion order
    debounceTimer,   \* part_005: whether the debounce timer is armed
    isProcessing,    \* part_005: let isProcessing
    job,             \* the row processNextJob selected and is executing, or NoJob
    queried,         \* one-shot: the roots whose query has been answered
    subscribed,      \* watch: the roots whose subscription is registered
    listening,       \* watch: whether the 'subscription' listener is registered
    \* ---- the environment
    now,             \* wall clock, ms
    local,           \* local file system: path -> "none" | "f" | "d"
    svcClock,        \* file-change service: root -> its clock (a tick count)
    changedAt,       \* file-change service: path -> tick of its last change
    subCursor,       \* file-change service: root -> clock its subscription has reported up to
    remote,          \* remote drive: remote path -> "none" | "file" | "folder"
    mirror,          \* remote drive: the node named like the root under My files
    ino,             \* local file system: path -> its inode number, the last one when
                     \* the path is gone, 0 when it never existed
    \* ---- bookkeeping for the properties (never read by the program)
    hist,            \* per row: attempts, failures, successes, ...
    enqTick,         \* path -> tick of the last change of it that was enqueued
    reported,        \* path -> tick, batch clock and state of its last change handed to the program
    lastEnqClock,    \* root -> batch clock of the last event enqueued for it
    passReturned,    \* processAllPendingJobs has returned and nothing arrived since
    nEvents, nFailures, nRuns,
    env              \* what the environment may do in this behaviour (never changes)

storeVars == <<syncJobs, clocks>>
wmVars == <<watchmanUp, connectPc, wasRunning, upBefore, nShutdowns, nSpared>>
subsVars == <<config, pendingDirs, listeners, activeSubscriptions, subscriptionMap,
              lastEvent>>
unitVars == <<children, findRun, tree, ensureRun, timers, timerRef, lastBatchAt, subsVars>>
ctlVars == <<flags, signals, wmVars, unitVars>>
procVars == <<run, dryRun, pendingChanges, debounceTimer, isProcessing, job,
              queried, subscribed, listening>>
envVars == <<now, local, svcClock, changedAt, subCursor, remote, mirror, ino>>
histVars == <<hist, enqTick, reported, lastEnqClock, passReturned, nEvents, nFailures, nRuns, env>>
vars == <<storeVars, ctlVars, procVars, envVars, histVars>>

(***************************************************************************)
(* Helpers.                                                                *)
(***************************************************************************)
Min(S) == CHOOSE x \in S : \A y \in S : x <= y
Max(S) == CHOOSE x \in S : \A y \in S : x >= y

RECURSIVE Pow2(_)
Pow2(n) == IF n = 0 THEN 1 ELSE 2 * Pow2(n - 1)

\* path.basename of a watch root: the text after its last "/".
Basename(root) ==
    CASE root = "/home/u/docs" -> "docs"
      [] root = "/home/u/pics" -> "pics"
      [] root = "/mnt/docs" -> "docs"
      [] OTHER -> root

\* The kind the environment gives a relative path: "d" is a directory,
\* every other name a file.
KindOf(name) == IF name = "d" THEN "d" ELSE "f"

\* processChanges: `${change.watchRoot}/${path}`.
LocalPathOf(watchRoot, name) == <<watchRoot, name>>
\* processChanges: `${dirName}/${path}` (remoteRoot is empty).
RemotePathOf(watchRoot, name) == <<Basename(watchRoot), name>>
RemotePaths == {RemotePathOf(p[1], p[2]) : p \in LocalPaths}

\* A variant that looks at the type before it looks at exists.
EventTypeOf_typeFirst(change) ==
    IF change.type = "d" THEN CREATE
    ELSE IF ~change.exists THEN DELETE
    ELSE UPDATE

\* processChanges: the event type of a buffered change.
EventTypeOf(change) ==
    IF ~change.exists THEN DELETE
    ELSE IF change.type = "d" THEN CREATE
    ELSE UPDATE

\* drizzle integer column, mode 'timestamp': a Date is stored in whole seconds.
ToTimestamp(ms) == ms \div 1000

(***************************************************************************)
(* The job queue, src/src/jobs.ts.  A store is the sequence of its rows.   *)
(***************************************************************************)
enqueueJob(js, params, dr, nowMs) ==
    IF dr THEN js
    ELSE Append(js, [id |-> Len(js) + 1,
                     eventType |-> params.eventType,
                     localPath |-> params.localPath,
                     remotePath |-> params.remotePath,
                     status |-> PENDING,
                     retryAt |-> ToTimestamp(nowMs),
                     nRetries |-> 0,
                     lastError |-> Null])

\* A variant of the WHERE clause that leaves the status test out.
ReadyJobs_anyStatus(js, nowMs) ==
    {i \in DOMAIN js : js[i].retryAt <= ToTimestamp(nowMs)}

\* The rows the WHERE clause of getNextPendingJob keeps.
ReadyJobs(js, nowMs) ==
    {i \in DOMAIN js : js[i].status = PENDING /\ js[i].retryAt <= ToTimestamp(nowMs)}

\* ORDER BY retry_at LIMIT 1: a row of least retry_at; SQL leaves the choice
\* among equal retry_at open, so every such row is a possible answer.
getNextPendingJob(js, nowMs) ==
    {i \in ReadyJobs(js, nowMs) :
        \A k \in ReadyJobs(js, nowMs) : js[i].retryAt <= js[k].retryAt}

\* A variant of markJobSynced that leaves last_error as it is.
markJobSynced_keepsError(js, jobId, dr) ==
    IF dr THEN js
    ELSE [js EXCEPT ![jobId].status = SYNCED]

\* A variant of markJobSynced that writes on a dry run too.
markJobSynced_onDryRun(js, jobId, dr) ==
    [js EXCEPT ![jobId].status = SYNCED, ![jobId].lastError = Null]

markJobSynced(js, jobId, dr) ==
    IF dr THEN js
    ELSE [js EXCEPT ![jobId].status = SYNCED, ![jobId].lastError = Null]

\* A variant of markJobBlocked that records the error but leaves the status.
markJobBlocked_keepsStatus(js, jobId, error, dr) ==
    IF dr THEN js
    ELSE [js EXCEPT ![jobId].lastError = error]

markJobBlocked(js, jobId, error, dr) ==
    IF dr THEN js
    ELSE [js EXCEPT ![jobId].status = BLOCKED, ![jobId].lastError = error]

\* Math.min(BASE_RETRY_DELAY_MS * Math.pow(2, nRetries), MAX_RETRY_DELAY_MS)
BaseDelay(nRetries) ==
    IF BASE_RETRY_DELAY_MS * Pow2(nRetries) < MAX_RETRY_DELAY_MS
    THEN BASE_RETRY_DELAY_MS * Pow2(nRetries)
    ELSE MAX_RETRY_DELAY_MS

\* Math.random() * baseDelay * 0.5, truncated to whole ms by new Date():
\* every integer of 0 .. baseDelay/2 - 1.
JitterRange(nRetries) == 0 .. (BaseDelay(nRetries) \div 2 - 1)

\* delay = baseDelay + jitter, in ms.
RetryDelay(nRetries, jitter) == BaseDelay(nRetries) + jitter

scheduleRetry(js, jobId, nRetries, error, dr, nowMs, jitter) ==
    IF dr THEN js
    ELSE [js EXCEPT ![jobId].nRetries = nRetries + 1,
                    ![jobId].retryAt = ToTimestamp(nowMs + RetryDelay(nRetries, jitter)),
                    ![jobId].lastError = error]

\* Variants of the test of line 171, each off by one.
RetriesExhausted_gt(nRetries) == nRetries > MAX_RETRIES
RetriesExhausted_early(nRetries) == nRetries >= MAX_RETRIES - 1

\* processNextJob, line 171: the test that blocks a failed job.
RetriesExhausted(nRetries) == nRetries >= MAX_RETRIES

\* processNextJob, lines 164-179: what the store holds after the remote
\* operation of `j` ended with `result`.
SettleJob(js, j, result, dr, nowMs, jitter) ==
    IF result.success THEN markJobSynced(js, j.id, dr)
    ELSE IF RetriesExhausted(j.nRetries) THEN markJobBlocked(js, j.id, result.error, dr)
    ELSE scheduleRetry(js, j.id, j.nRetries, result.error, dr, nowMs, jitter)

(***************************************************************************)
(* The remote operations.  The drive is the environment: any call to it    *)
(* may fail.  The drive holds, under "My files", at most one node named    *)
(* like each watched directory (`mir`: "none", "file" or "folder") and,    *)
(* inside such a folder, the nodes of the watched paths (`rem`).  A find   *)
(* helper that looks for a folder does not see a file of that name, so a   *)
(* file named like a directory counts as no folder.  An outcome is the     *)
(* result the operation returns together with the tree it leaves and the   *)
(* mutating calls it issued on the client; `transient` marks an injected   *)
(* failure.                                                                *)
(***************************************************************************)
Dirs == {Basename(r) : r \in Roots}

Outcome(success, error, rem, mir, transient, calls) ==
    [success |-> success, error |-> error, remote |-> rem, mirror |-> mir,
     transient |-> transient, calls |-> calls]

\* deleteNode answering a missing node with an error.
deleteNode_failsOnMissing(rem, mir, remotePath, permanent) ==
    IF mir[remotePath[1]] # "folder" \/ rem[remotePath] = "none"
    THEN {Outcome(FALSE, "Not found", rem, mir, FALSE, {})}
    ELSE {Outcome(TRUE, Null, [rem EXCEPT ![remotePath] = "none"], mir, FALSE,
                  {"trashNodes"})}

\* deleteNode(client, remotePath, permanent), part_003: the node is deleted
\* for good by deleteNodes when `permanent`, moved to the trash by
\* trashNodes otherwise; either way it is gone from its folder.
deleteNode(rem, mir, remotePath, permanent) ==
    \* getMyFilesRootFolder() is not ok
    {Outcome(FALSE, "Failed to get root folder", rem, mir, TRUE, {})}
    \cup
    (IF mir[remotePath[1]] # "folder" \/ rem[remotePath] = "none"
     THEN \* traverseRemotePath finds no folder of the parent's name, or
          \* findNodeByName finds no node: nothing to delete
          {Outcome(TRUE, Null, rem, mir, FALSE, {})}
     ELSE IF permanent
     THEN \* deleteNodes: ok, or not ok
          {Outcome(TRUE, Null, [rem EXCEPT ![remotePath] = "none"], mir, FALSE,
                   {"deleteNodes"}),
           Outcome(FALSE, "Failed to delete", rem, mir, TRUE, {"deleteNodes"})}
     ELSE \* trashNodes: ok, or not ok
          {Outcome(TRUE, Null, [rem EXCEPT ![remotePath] = "none"], mir, FALSE,
                   {"trashNodes"}),
           Outcome(FALSE, "Failed to trash", rem, mir, TRUE, {"trashNodes"})})

\* ensureRemotePath for the one parent component: the calls it issues.
ensureRemotePath(mir, dir) ==
    IF mir[dir] = "folder" THEN {} ELSE {"createFolder:parent"}

\* createDirectory creating without looking for the folder.
createDirectory_noLookup(rem, remotePath) == {"createFolder"}

\* createDirectory: the calls it issues.
createDirectory(rem, remotePath) ==
    IF rem[remotePath] = "folder" THEN {} ELSE {"createFolder"}

\* uploadFile creating a file node without looking for one of that name.
uploadFile_noLookup(rem, remotePath) == {"uploadFile"}

\* uploadFile: the calls it issues, a new revision of the file found by name
\* or a new file.
uploadFile(rem, remotePath) ==
    IF rem[remotePath] = "file" THEN {"uploadRevision"} ELSE {"uploadFile"}

\* createNode refusing a path that already has a node.
createNode_refusesExisting(rem, mir, stat, remotePath) ==
    IF stat = "none"
    THEN {Outcome(FALSE, "Path not found", rem, mir, FALSE, {})}
    ELSE IF rem[remotePath] # "none"
    THEN {Outcome(FALSE, "Already exists", rem, mir, FALSE, {})}
    ELSE {Outcome(TRUE, Null,
                  [rem EXCEPT ![remotePath] = IF stat = "d" THEN "folder" ELSE "file"],
                  [mir EXCEPT ![remotePath[1]] = "folder"], FALSE, {})}

\* createNode(client, localPath, remotePath), part_000; `stat` is what
\* statSync(localPath) found when the operation started.
createNode(rem, mir, stat, remotePath) ==
    IF stat = "none"
    THEN {Outcome(FALSE, "Path not found", rem, mir, FALSE, {})}
    ELSE LET parent == ensureRemotePath(mir, remotePath[1])
             mir2 == [mir EXCEPT ![remotePath[1]] = "folder"]
             \* a folder just made has no children
             rem2 == IF parent = {} THEN rem
                     ELSE [q \in DOMAIN rem |->
                              IF q[1] = remotePath[1] THEN "none" ELSE rem[q]]
             node == IF stat = "d" THEN "folder" ELSE "file"
             target == IF stat = "d" THEN createDirectory(rem2, remotePath)
                       ELSE uploadFile(rem2, remotePath)
         IN  {\* getMyFilesRootFolder() is not ok
              Outcome(FALSE, "Failed to get root folder", rem, mir, TRUE, {}),
              \* createDirectory: found or created; uploadFile: revision or new file
              Outcome(TRUE, Null, [rem2 EXCEPT ![remotePath] = node], mir2, FALSE,
                      parent \cup target)}
             \cup
             \* createFolder of the parent is not ok
             (IF parent = {} THEN {}
              ELSE {Outcome(FALSE, "Failed to create folder", rem, mir, TRUE, parent)})
             \cup
             \* the parents exist now; createFolder or the upload fails
             (IF target = {} THEN {}
              ELSE {Outcome(FALSE, "Failed to create", rem2, mir2, TRUE,
                            parent \cup target)})

\* processNextJob deleting for good.
RemoteOperation_permanent(rem, mir, j) ==
    IF j.eventType = DELETE THEN deleteNode(rem, mir, j.remotePath, TRUE)
    ELSE createNode(rem, mir, j.stat, j.remotePath)

\* processNextJob, lines 137-162: the operation the event type selects;
\* line 139 is deleteNode(client, remotePath, false).
RemoteOperation(rem, mir, j) ==
    IF j.eventType = DELETE THEN deleteNode(rem, mir, j.remotePath, FALSE)
    ELSE createNode(rem, mir, j.stat, j.remotePath)

(***************************************************************************)
(* The debounce buffer, part_005.                                          *)
(***************************************************************************)
\* pendingChanges.set(file.name, file): a Map keeps a key's first position.
queueChange(buffer, file) ==
    IF \E i \in DOMAIN buffer : buffer[i].name = file.name
    THEN [i \in DOMAIN buffer |-> IF buffer[i].name = file.name THEN file ELSE buffer[i]]
    ELSE Append(buffer, file)

RECURSIVE queueChanges(_, _)
queueChanges(buffer, files) ==
    IF files = <<>> THEN buffer
    ELSE queueChanges(queueChange(buffer, Head(files)), Tail(files))

\* processChanges, lines 97-128: one enqueueJob per buffered change.
RECURSIVE EnqueueChanges(_, _, _, _)
EnqueueChanges(js, changes, dr, nowMs) ==
    IF changes = <<>> THEN js
    ELSE EnqueueChanges(
            enqueueJob(js, [eventType |-> EventTypeOf(Head(changes)),
                            localPath |-> LocalPathOf(Head(changes).watchRoot, Head(changes).name),
                            remotePath |-> RemotePathOf(Head(changes).watchRoot, Head(changes).name)],
                       dr, nowMs),
            Tail(changes), dr, nowMs)

(***************************************************************************)
(* The file-change service (Watchman), the environment.                    *)
(***************************************************************************)
\* The names a query or subscription of `root` reports since clock `since`
\* (0: no saved clock, every existing file is reported).
ChangedSince(root, since) ==
    {n \in Names : /\ changedAt[<<root, n>>] > since
                   /\ (since = 0 => local[<<root, n>>] # "none")}

\* The file records of a response, in any order.
\* `clock` is the field the handler copies from the response (0: none);
\* `batch`, `tick` and `ino` are bookkeeping: the clock of the response, the
\* service tick of the change the record reports and the inode of the path
\* (the query of part_005 does not ask the service for the inode).
FileLists(root, names, clock, batch) ==
    {fs \in [1 .. Cardinality(names) ->
                {[name |-> n, exists |-> local[<<root, n>>] # "none", type |-> KindOf(n),
                  watchRoot |-> root, clock |-> clock,
                  batch |-> batch, tick |-> changedAt[<<root, n>>],
                  ino |-> ino[<<root, n>>]]
                    : n \in names}] :
        \A i, k \in DOMAIN fs : i # k => fs[i].name # fs[k].name}

\* setupWatchmanDaemon, lines 328-339: the watch root the handler derives
\* from the subscription name: the first configured directory of that base name.
HandlerRoot(root) ==
    SyncDirs[Min({i \in DOMAIN SyncDirs : Basename(SyncDirs[i]) = Basename(root)})]

(***************************************************************************)
(* Bookkeeping for the properties.                                         *)
(***************************************************************************)
\* `delay` is the delay the last finished visit handed to scheduleRetry, 0
\* when it scheduled no retry.  `killed` tells whether the process was killed
\* during a remote operation of the row and how far that operation had got:
\* "lost" (nothing reached the drive), "part" (the parent folder was made)
\* or "done" (the whole operation reached the drive).  `calls` holds the
\* mutating calls the last finished visit issued on the drive client.
NewHist == [attempts |-> 0, fails |-> 0, oks |-> 0, lastMsg |-> Null,
            visits |-> 0, startRetries |-> 0, delay |-> 0, killed |-> "no",
            calls |-> {}]

\* One more, up to HistCap.
Bump(n) == IF n < HistCap THEN n + 1 ELSE n

RECURSIVE HistEnqueued(_, _, _)
HistEnqueued(h, changes, dr) ==
    IF dr \/ changes = <<>> THEN h
    ELSE HistEnqueued(Append(h, NewHist), Tail(changes), dr)

ChangeOf(changes, path) ==
    {i \in DOMAIN changes : LocalPathOf(changes[i].watchRoot, changes[i].name) = path}

EnqTickAfter(changes, dr) ==
    [p \in LocalPaths |->
        IF ~dr /\ ChangeOf(changes, p) # {}
        THEN changes[Max(ChangeOf(changes, p))].tick
        ELSE enqTick[p]]

LastEnqClockAfter(changes, dr) ==
    [r \in Roots |->
        IF ~dr /\ \E i \in DOMAIN changes : changes[i].watchRoot = r
        THEN changes[Max({i \in DOMAIN changes : changes[i].watchRoot = r})].batch
        ELSE lastEnqClock[r]]

ReportedAfter(root, names, clock) ==
    [p \in LocalPaths |->
        IF p[1] = root /\ p[2] \in names
        THEN [tick |-> changedAt[p], clock |-> clock, exists |-> local[p] # "none"]
        ELSE reported[p]]

\* Jitter values over the whole range of a retry: its ends and a value between.
JitterSamples(nRetries) ==
    {0, BaseDelay(nRetries) \div 4, BaseDelay(nRetries) \div 2 - 1}

\* The jitter values explored for a retry.
Jitters(nRetries) ==
    IF nRetries < JitterDepth
    THEN {0, BaseDelay(nRetries) \div 2 - 1}
    ELSE {0}

(***************************************************************************)
(* The executor.                                                           *)
(***************************************************************************)
\* processAllPendingJobs calling processNextJob on store `js`: either a
\* ready row is selected and its remote operation starts, or none is ready,
\* processAllPendingJobs returns and processChanges ends (lines 131-141).
\* `h` is the bookkeeping and `timer` the debounce timer so far.
processNextJob(js, h, buffer, timer) ==
    /\ syncJobs' = js
    /\ pendingChanges' = buffer
    /\ IF getNextPendingJob(js, now) = {}
       THEN /\ job' = NoJob
            /\ isProcessing' = FALSE
            /\ debounceTimer' = (IF buffer # <<>> THEN TRUE ELSE timer)
            /\ run' = (IF run = "oneshot" THEN "off" ELSE run)
            /\ hist' = h
            /\ passReturned' = TRUE
       ELSE \E id \in getNextPendingJob(js, now) :
            /\ job' = [id |-> id,
                       eventType |-> js[id].eventType,
                       localPath |-> js[id].localPath,
                       remotePath |-> js[id].remotePath,
                       nRetries |-> js[id].nRetries,
                       stat |-> IF js[id].eventType = DELETE THEN "unread"
                                ELSE local[js[id].localPath]]
            /\ isProcessing' = TRUE
            /\ debounceTimer' = timer
            /\ run' = run
            /\ hist' = [h EXCEPT ![id].attempts = Bump(@)]
            /\ passReturned' = FALSE

\* A variant of processChanges without the isProcessing test of line 89.
processChanges_noGuard(timer) ==
    /\ enqTick' = EnqTickAfter(pendingChanges, dryRun)
    /\ lastEnqClock' = LastEnqClockAfter(pendingChanges, dryRun)
    /\ processNextJob(EnqueueChanges(syncJobs, pendingChanges, dryRun, now),
                      HistEnqueued(hist, pendingChanges, dryRun),
                      <<>>, timer)

\* processChanges, lines 88-131: unless a pass is running, the buffer is
\* flushed into the store and the executor starts.
processChanges(timer) ==
    IF isProcessing
    THEN /\ debounceTimer' = timer
         /\ UNCHANGED <<syncJobs, pendingChanges, isProcessing, job, run, hist,
                        passReturned, enqTick, lastEnqClock>>
    ELSE /\ enqTick' = EnqTickAfter(pendingChanges, dryRun)
         /\ lastEnqClock' = LastEnqClockAfter(pendingChanges, dryRun)
         /\ processNextJob(EnqueueChanges(syncJobs, pendingChanges, dryRun, now),
                           HistEnqueued(hist, pendingChanges, dryRun),
                           <<>>, timer)

\* The remote operation of the selected job ends; the row is settled and
\* the loop of processAllPendingJobs goes on (processNextJob, lines 136-179).
JobDone ==
    /\ run # "off"
    /\ job.id # 0
    /\ \E out \in RemoteOperation(remote, mirror, job) :
       \E jitter \in (IF out.success \/ RetriesExhausted(job.nRetries)
                      THEN {0} ELSE Jitters(job.nRetries)) :
        /\ out.transient => (nFailures < env.maxFailures /\ job.localPath \in env.failPaths)
        /\ nFailures' = IF out.transient THEN nFailures + 1 ELSE nFailures
        /\ remote' = out.remote
        /\ mirror' = out.mirror
        /\ processNextJob(
              SettleJob(syncJobs, job, out, dryRun, now, jitter),
              [hist EXCEPT ![job.id].visits = Bump(@),
                           ![job.id].startRetries = job.nRetries,
                           ![job.id].fails = IF out.success THEN @ ELSE Bump(@),
                           ![job.id].oks = IF out.success THEN Bump(@) ELSE @,
                           ![job.id].lastMsg = IF out.success THEN @ ELSE out.error,
                           ![job.id].calls = out.calls,
                           ![job.id].delay =
                               IF out.success \/ RetriesExhausted(job.nRetries) \/ dryRun
                               THEN 0 ELSE RetryDelay(job.nRetries, jitter)],
              pendingChanges, debounceTimer)
    /\ UNCHANGED ctlVars
    /\ UNCHANGED ino
    /\ UNCHANGED <<clocks, dryRun, queried, subscribed, listening,
                   now, local, svcClock, changedAt, subCursor,
                   enqTick, reported, lastEnqClock, nEvents, nRuns, env>>

(***************************************************************************)
(* Watch mode, part_005 setupWatchmanDaemon.                               *)
(***************************************************************************)
\* subscribeWatchman for one directory, with the saved clock as `since`.
Subscribe(r) ==
    /\ run = "watch"
    /\ ~listening
    /\ r \notin subscribed
    /\ subscribed' = subscribed \cup {r}
    /\ subCursor' = [subCursor EXCEPT ![r] = clocks[r]]
    /\ UNCHANGED ctlVars
    /\ UNCHANGED ino
    /\ UNCHANGED <<storeVars, run, dryRun, pendingChanges, debounceTimer, isProcessing,
                   job, queried, listening, now, local, svcClock, changedAt, remote,
                   mirror, histVars>>

\* watchmanClient.on('subscription', ...), after every subscribe has resolved.
Listen ==
    /\ run = "watch"
    /\ ~listening
    /\ subscribed = Roots
    /\ listening' = TRUE
    /\ UNCHANGED ctlVars
    /\ UNCHANGED <<storeVars, run, dryRun, pendingChanges, debounceTimer, isProcessing,
                   job, queried, subscribed, envVars, histVars>>

\* The service publishes the changes of root r since the subscription's
\* cursor.  With a listener the handler buffers every file and re-arms the
\* timer (queueChange(..., true)); without one the event is lost.
Deliver(r) ==
    /\ run = "watch"
    /\ r \in subscribed
    /\ ChangedSince(r, subCursor[r]) # {}
    /\ subCursor' = [subCursor EXCEPT ![r] = svcClock[r]]
    /\ IF listening
       THEN /\ \E files \in FileLists(HandlerRoot(r), ChangedSince(r, subCursor[r]),
                                      svcClock[r], svcClock[r]) :
                 pendingChanges' = queueChanges(pendingChanges, files)
            /\ debounceTimer' = TRUE
            /\ passReturned' = FALSE
            /\ reported' = ReportedAfter(HandlerRoot(r), ChangedSince(r, subCursor[r]),
                                         svcClock[r])
       ELSE UNCHANGED <<pendingChanges, debounceTimer, passReturned, reported>>
    /\ UNCHANGED ctlVars
    /\ UNCHANGED ino
    /\ UNCHANGED <<storeVars, run, dryRun, isProcessing, job, queried, subscribed,
                   listening, now, local, svcClock, changedAt, remote, mirror,
                   hist, enqTick, lastEnqClock, nEvents, nFailures, nRuns, env>>

\* The debounce timer fires: scheduleProcessing's callback.
TimerFire ==
    /\ run = "watch"
    /\ debounceTimer
    /\ processChanges(FALSE)
    /\ UNCHANGED ctlVars
    /\ UNCHANGED <<clocks, dryRun, queried, subscribed, listening, envVars,
                   reported, nEvents, nFailures, nRuns, env>>

(***************************************************************************)
(* One-shot mode, part_005 runOneShotSync, and the clock store.            *)
(***************************************************************************)
\* setClock(watchDir, clock, dryRun): the clock of the root is overwritten;
\* nothing is written on a dry run.
setClock(clk, watchDir, clock, dr) ==
    IF dr THEN clk ELSE [clk EXCEPT ![watchDir] = clock]

\* The query of one directory is answered (the queries run concurrently, so
\* in any order): the clock of the response is saved, then its files are
\* buffered without arming the timer (lines 258-277).
QueryRoot(r) ==
    /\ run = "oneshot"
    /\ r \notin queried
    /\ queried' = queried \cup {r}
    /\ clocks' = setClock(clocks, r, svcClock[r], dryRun)
    /\ \E files \in FileLists(r, ChangedSince(r, clocks[r]), 0, svcClock[r]) :
         pendingChanges' = queueChanges(pendingChanges, files)
    /\ reported' = ReportedAfter(r, ChangedSince(r, clocks[r]), svcClock[r])
    /\ UNCHANGED ctlVars
    /\ UNCHANGED <<syncJobs, run, dryRun, debounceTimer, isProcessing, job, subscribed,
                   listening, envVars, hist, enqTick, lastEnqClock, passReturned,
                   nEvents, nFailures, nRuns, env>>

\* Every query is answered (lines 281-287): with an empty buffer the run
\* ends, otherwise processChanges is called.
OneShotProcess ==
    /\ run = "oneshot"
    /\ queried = Roots
    /\ ~isProcessing
    /\ IF pendingChanges = <<>>
       THEN /\ run' = "off"
            /\ UNCHANGED <<syncJobs, pendingChanges, debounceTimer, isProcessing, job,
                           hist, enqTick, lastEnqClock, passReturned>>
       ELSE processChanges(debounceTimer)
    /\ UNCHANGED ctlVars
    /\ UNCHANGED <<clocks, dryRun, queried, subscribed, listening, envVars,
                   reported, nEvents, nFailures, nRuns, env>>

\* The process ends at once: everything it held in memory is gone.  A
\* remote operation under way may or may not have reached the drive.
ProcessEnds ==
    /\ run # "off"
    /\ run' = "off"
    /\ pendingChanges' = <<>>
    /\ debounceTimer' = FALSE
    /\ isProcessing' = FALSE
    /\ job' = NoJob
    /\ queried' = {}
    /\ subscribed' = {}
    /\ listening' = FALSE
    /\ IF job.id = 0
       THEN UNCHANGED <<remote, mirror, hist>>
       ELSE \E out \in RemoteOperation(remote, mirror, job) :
              /\ remote' = out.remote
              /\ mirror' = out.mirror
              /\ hist' = [hist EXCEPT ![job.id].killed =
                              IF out.success THEN "done"
                              ELSE IF out.mirror # mirror THEN "part" ELSE "lost"]
    /\ UNCHANGED ino
    /\ UNCHANGED <<storeVars, dryRun, now, local, svcClock, changedAt, subCursor,
                   enqTick, reported, lastEnqClock, passReturned, nEvents, nFailures,
                   nRuns, env>>

\* The process is killed.
Kill ==
    /\ ProcessEnds
    /\ UNCHANGED ctlVars

\* The command is run again in one-shot mode.
Restart ==
    /\ run = "off"
    /\ nRuns < MaxRuns
    /\ nRuns' = nRuns + 1
    /\ run' = "oneshot"
    /\ passReturned' = FALSE
    /\ UNCHANGED ctlVars
    /\ UNCHANGED <<storeVars, dryRun, pendingChanges, debounceTimer, isProcessing, job,
                   queried, subscribed, listening, envVars, hist, enqTick, reported,
                   lastEnqClock, nEvents, nFailures, env>>

(***************************************************************************)
(* The environment: the local file system and the wall clock.              *)
(***************************************************************************)
\* The seconds, later than the current one, at which a waiting row becomes ready.
FutureRetries == {syncJobs[i].retryAt : i \in {k \in DOMAIN syncJobs :
                     syncJobs[k].status = PENDING /\ syncJobs[k].retryAt > ToTimestamp(now)}}

\* The program is at rest: nothing buffered, no pass running, no timer
\* armed, nothing the service still has to publish, and no row waiting for
\* a later second.
AtRest ==
    /\ pendingChanges = <<>>
    /\ ~isProcessing
    /\ ~debounceTimer
    /\ run = "watch" => listening /\ \A r \in Roots : ChangedSince(r, subCursor[r]) = {}
    /\ FutureRetries = {}

\* The changes the environment may make to path p now: create or remove
\* it ("toggle"), or modify it when it is a file.
FsKinds(p) ==
    (IF p \in env.togglePaths THEN {"toggle"} ELSE {})
    \cup (IF p \in env.modifyPaths /\ local[p] = "f" THEN {"modify"} ELSE {})

\* An inode number no path has or had.
FreshIno ==
    Min((1 .. (Cardinality(LocalPaths) + nEvents + 1)) \ {ino[p] : p \in LocalPaths})

\* A file or directory is created, removed or modified; the service notes it.
\* A created path gets an inode of its own.
FsChange(p) ==
    /\ nEvents < env.maxEvents
    /\ env.quiet => AtRest
    /\ \E kind \in FsKinds(p) :
         /\ local' = [local EXCEPT ![p] = IF kind = "modify" THEN @
                                          ELSE IF @ = "none" THEN KindOf(p[2]) ELSE "none"]
         /\ ino' = IF kind # "modify" /\ local[p] = "none"
                   THEN [ino EXCEPT ![p] = FreshIno] ELSE ino
    /\ nEvents' = nEvents + 1
    /\ svcClock' = [svcClock EXCEPT ![p[1]] = @ + 1]
    /\ changedAt' = [changedAt EXCEPT ![p] = svcClock[p[1]] + 1]
    /\ UNCHANGED ctlVars
    /\ UNCHANGED <<storeVars, procVars, now, subCursor, remote, mirror,
                   hist, enqTick, reported, lastEnqClock, passReturned, nFailures, nRuns, env>>

\* A file is renamed within its watched directory: the old path is gone and
\* the new path has its inode; the service notes both in one tick.
FsMove(p, q) ==
    /\ nEvents < env.maxEvents
    /\ env.quiet => AtRest
    /\ p \in env.togglePaths
    /\ p[1] = q[1] /\ p # q
    /\ KindOf(p[2]) = KindOf(q[2])
    /\ local[p] # "none" /\ local[q] = "none"
    /\ local' = [local EXCEPT ![p] = "none", ![q] = local[p]]
    /\ ino' = [ino EXCEPT ![q] = ino[p]]
    /\ nEvents' = nEvents + 1
    /\ svcClock' = [svcClock EXCEPT ![p[1]] = @ + 1]
    /\ changedAt' = [changedAt EXCEPT ![p] = svcClock[p[1]] + 1,
                                      ![q] = svcClock[p[1]] + 1]
    /\ UNCHANGED ctlVars
    /\ UNCHANGED <<storeVars, procVars, now, subCursor, remote, mirror,
                   hist, enqTick, reported, lastEnqClock, passReturned, nFailures, nRuns, env>>

\* Time passes until the next second at which a waiting row becomes ready.
TickToRetry ==
    /\ FutureRetries # {}
    /\ now' = 1000 * Min(FutureRetries)
    /\ UNCHANGED ctlVars
    /\ UNCHANGED ino
    /\ UNCHANGED <<storeVars, procVars, local, svcClock, changedAt, subCursor, remote,
                   mirror, histVars>>

\* Time passes within the current second.
TickWithinSecond ==
    /\ now % 1000 = 0
    /\ now' = now + 999
    /\ UNCHANGED ctlVars
    /\ UNCHANGED ino
    /\ UNCHANGED <<storeVars, procVars, local, svcClock, changedAt, subCursor, remote,
                   mirror, histVars>>

(***************************************************************************)
(* The watch-mode daemon, started on a fresh store.                        *)
(***************************************************************************)
InitLocal == [LocalPaths -> {"none", "f", "d"}]

\* The inode numbers of the paths that exist at the start, one per path.
InitIno(p) ==
    (IF p[1] = SyncDirs[1] THEN 0 ELSE Cardinality(Names))
        + (IF p[2] = "a" THEN 1 ELSE IF p[2] = "b" THEN 2 ELSE 3)

\* The program, the local files and the file-change service at the start,
\* but for whether the service process runs.
InitDaemon ==
    /\ clocks = [r \in Roots |-> 0]
    /\ flags = {}
    /\ signals = {}
    /\ connectPc = "idle"
    /\ wasRunning = FALSE
    /\ upBefore = FALSE
    /\ nShutdowns = 0
    /\ nSpared = 0
    /\ pendingChanges = <<>>
    /\ debounceTimer = FALSE
    /\ isProcessing = FALSE
    /\ job = NoJob
    /\ queried = {}
    /\ subscribed = {}
    /\ listening = FALSE
    /\ local \in {l \in InitLocal : \A p \in LocalPaths : l[p] \in {"none", KindOf(p[2])}}
    /\ \A p \in LocalPaths : local[p] # "none" => p \in env.initPaths
    /\ svcClock = [r \in Roots |-> 1]
    /\ changedAt = [p \in LocalPaths |-> IF local[p] = "none" THEN 0 ELSE 1]
    /\ ino = [p \in LocalPaths |-> IF local[p] = "none" THEN 0 ELSE InitIno(p)]
    /\ subCursor = [r \in Roots |-> 0]
    /\ enqTick = [p \in LocalPaths |-> 0]
    /\ reported = [p \in LocalPaths |-> [tick |-> 0, clock |-> 0, exists |-> FALSE]]
    /\ lastEnqClock = [r \in Roots |-> 0]
    /\ passReturned = FALSE
    /\ nEvents = 0
    /\ nFailures = 0
    /\ nRuns = 1

\* watcher.ts, lines 45-49: no subscription, no listener, no event yet.
NoEvent == [from |-> "none", as |-> "none", handed |-> 0]
InitSubs ==
    /\ config = <<>>
    /\ pendingDirs = {}
    /\ listeners = 0
    /\ activeSubscriptions = <<>>
    /\ subscriptionMap = <<>>
    /\ lastEvent = NoEvent

\* No lookup in a folder of the drive is being looked at.
NoFind == [fn |-> "none"]
NoEnsure == [pathParts |-> <<"none">>]
InitUnits ==
    /\ children = <<>>
    /\ findRun = NoFind
    /\ tree = {}
    /\ ensureRun = NoEnsure
    /\ timers = {}
    /\ timerRef = 0
    /\ lastBatchAt = 0
    /\ InitSubs

\* The program at its start with the service process running.
InitProgram ==
    /\ InitDaemon
    /\ InitUnits
    /\ watchmanUp = TRUE

\* Everything but the job store, its bookkeeping and the wall clock: the
\* program at its start and an empty drive.
InitRest ==
    /\ InitProgram
    /\ remote = [q \in RemotePaths |-> "none"]
    /\ mirror = [d \in Dirs |-> "none"]

InitCommon ==
    /\ syncJobs = <<>>
    /\ hist = <<>>
    /\ now = 0
    /\ InitRest

Init ==
    /\ env = [maxEvents |-> MaxEvents, maxFailures |-> MaxFailures, quiet |-> FALSE,
              initPaths |-> {<<SyncDirs[1], "a">>},
              togglePaths |-> {<<SyncDirs[1], "a">>, <<SyncDirs[2], "a">>},
              modifyPaths |-> {<<SyncDirs[1], "a">>},
              failPaths |-> LocalPaths]
    /\ InitCommon
    /\ run = "watch"
    /\ dryRun = FALSE

Next ==
    \/ \E r \in Roots : Subscribe(r)
    \/ Listen
    \/ \E r \in Roots : Deliver(r)
    \/ TimerFire
    \/ JobDone
    \/ \E p \in LocalPaths : FsChange(p)
    \/ TickToRetry
    \/ TickWithinSecond

Spec == Init /\ [][Next]_vars

\* A watch-mode run in which files are also renamed.
MoveNext ==
    \/ Next
    \/ \E p, q \in LocalPaths : FsMove(p, q)

MoveSpec == Init /\ [][MoveNext]_vars

(***************************************************************************)
(* The same daemon in an environment that changes files only while the     *)
(* program is at rest and has enough changes and transient failures for a  *)
(* row to fail on every attempt up to its last.                            *)
(***************************************************************************)
RetryInit ==
    /\ env = [maxEvents |-> RetryEvents, maxFailures |-> RetryFailures, quiet |-> TRUE,
              initPaths |-> {<<SyncDirs[1], "a">>, <<SyncDirs[2], "a">>},
              togglePaths |-> {<<SyncDirs[2], "a">>},
              modifyPaths |-> {},
              failPaths |-> {<<SyncDirs[1], "a">>}]
    /\ InitCommon
    /\ run = "watch"
    /\ dryRun = FALSE

RetrySpec == RetryInit /\ [][Next]_vars

(***************************************************************************)
(* The command in one-shot mode, run, killed and run again.                *)
(***************************************************************************)
OneShotInit ==
    /\ env = [maxEvents |-> MaxEvents, maxFailures |-> MaxFailures, quiet |-> FALSE,
              initPaths |-> {<<SyncDirs[1], "a">>},
              togglePaths |-> {<<SyncDirs[1], "a">>, <<SyncDirs[2], "a">>},
              modifyPaths |-> {<<SyncDirs[1], "a">>},
              failPaths |-> LocalPaths]
    /\ InitCommon
    /\ run = "oneshot"
    /\ dryRun = FALSE

OneShotNext ==
    \/ \E r \in Roots : QueryRoot(r)
    \/ OneShotProcess
    \/ JobDone
    \/ Kill
    \/ Restart
    \/ \E p \in LocalPaths : FsChange(p)
    \/ TickToRetry
    \/ TickWithinSecond

OneShotSpec == OneShotInit /\ [][OneShotNext]_vars

(***************************************************************************)
(* scheduleRetry on its own: a row that has failed k times, for every k,   *)
(* is rescheduled at several times of day with jitter over its range.      *)
(***************************************************************************)
DelayTimes == {0, 999, 86399500}

\* A row that has been attempted and rescheduled k times; its retry_at is
\* k seconds after the start of the behaviour.
RetriedRow(k) ==
    [id |-> 1, eventType |-> UPDATE,
     localPath |-> LocalPathOf(SyncDirs[1], "a"),
     remotePath |-> RemotePathOf(SyncDirs[1], "a"),
     status |-> PENDING, retryAt |-> k, nRetries |-> k,
     lastError |-> IF k = 0 THEN Null ELSE "Failed to create"]

RetriedHist(k) ==
    [attempts |-> k, fails |-> k, oks |-> 0,
     lastMsg |-> IF k = 0 THEN Null ELSE "Failed to create",
     visits |-> k, startRetries |-> IF k = 0 THEN 0 ELSE k - 1, delay |-> 0,
     killed |-> "no", calls |-> {}]

DelayInit ==
    /\ env = [maxEvents |-> 0, maxFailures |-> 0, quiet |-> TRUE,
              initPaths |-> {LocalPathOf(SyncDirs[1], "a")},
              togglePaths |-> {}, modifyPaths |-> {}, failPaths |-> {}]
    /\ \E k \in 0 .. MAX_RETRIES :
         /\ syncJobs = <<RetriedRow(k)>>
         /\ hist = <<RetriedHist(k)>>
    /\ now \in DelayTimes
    /\ InitRest
    /\ run = "off"
    /\ dryRun = FALSE

\* scheduleRetry(jobId, nRetries, error, dryRun) is called for a PENDING row
\* with the row's n_retries, as processNextJob calls it.
RetryOnce(i, jitter) ==
    /\ syncJobs[i].status = PENDING
    /\ hist[i].delay = 0
    /\ syncJobs' = scheduleRetry(syncJobs, i, syncJobs[i].nRetries, "Failed to create",
                                 dryRun, now, jitter)
    /\ hist' = [hist EXCEPT ![i].attempts = @ + 1,
                            ![i].visits = @ + 1,
                            ![i].fails = @ + 1,
                            ![i].startRetries = syncJobs[i].nRetries,
                            ![i].lastMsg = "Failed to create",
                            ![i].delay = RetryDelay(syncJobs[i].nRetries, jitter)]
    /\ UNCHANGED ctlVars
    /\ UNCHANGED <<clocks, procVars, envVars, enqTick, reported, lastEnqClock,
                   passReturned, nEvents, nFailures, nRuns, env>>

DelayNext ==
    \E i \in DOMAIN syncJobs : \E jitter \in JitterSamples(syncJobs[i].nRetries) :
        RetryOnce(i, jitter)

DelaySpec == DelayInit /\ [][DelayNext]_vars

(***************************************************************************)
(* The command in one-shot mode with --dry-run, on a store that is empty   *)
(* or holds a PENDING row left by an earlier run.                          *)
(***************************************************************************)
DryInit ==
    /\ env = [maxEvents |-> MaxEvents, maxFailures |-> MaxFailures, quiet |-> FALSE,
              initPaths |-> {<<SyncDirs[1], "a">>},
              togglePaths |-> {<<SyncDirs[1], "a">>, <<SyncDirs[2], "a">>},
              modifyPaths |-> {<<SyncDirs[1], "a">>},
              failPaths |-> LocalPaths]
    /\ \/ syncJobs = <<>> /\ hist = <<>>
       \/ \E k \in {0, 1} : syncJobs = <<RetriedRow(k)>> /\ hist = <<RetriedHist(k)>>
    /\ now = 0
    /\ InitRest
    /\ run = "oneshot"
    /\ dryRun = TRUE

DrySpec == DryInit /\ [][OneShotNext]_vars

(***************************************************************************)
(* The watch-mode daemon started on a drive that already holds nodes: the  *)
(* node named like the first watched directory is missing, a file or a     *)
(* folder, and a folder holds any nodes for the watched paths.             *)
(***************************************************************************)
RemoteKinds == {"none", "file", "folder"}

\* File changes and injected drive failures on the populated drive.
TreeEvents == 1
TreeFailures == 1

TreeInit ==
    /\ env = [maxEvents |-> TreeEvents, maxFailures |-> TreeFailures, quiet |-> FALSE,
              initPaths |-> {<<SyncDirs[1], "a">>, <<SyncDirs[1], "d">>},
              togglePaths |-> {<<SyncDirs[1], "a">>, <<SyncDirs[1], "d">>},
              modifyPaths |-> {},
              failPaths |-> LocalPaths]
    /\ syncJobs = <<>>
    /\ hist = <<>>
    /\ now = 0
    /\ InitProgram
    /\ mirror \in [Dirs -> RemoteKinds]
    /\ remote \in [RemotePaths -> RemoteKinds]
    /\ \A q \in RemotePaths :
          /\ remote[q] # "none" => mirror[q[1]] = "folder"
          /\ q[1] # Basename(SyncDirs[1]) => remote[q] = "none" /\ mirror[q[1]] = "none"
          /\ q[2] = "b" => remote[q] = "none"
    /\ run = "watch"
    /\ dryRun = FALSE

TreeSpec == TreeInit /\ [][Next]_vars

(***************************************************************************)
(* The file watcher of watcher.ts: one-shot queries, subscriptions and     *)
(* re-subscriptions, each handing its batch to the handler it was given    *)
(* and saving the clock of the response.  Responses reach the one client   *)
(* in the order the service sent them, so a response is handled with the   *)
(* clock the service has when it is handled.                               *)
(***************************************************************************)
\* File changes the environment may make under the watcher.
WatcherEvents == 3

\* `${WATCHMAN_SUB_NAME}-${basename(watchDir)}`, without the fixed prefix.
SubNameOf(watchDir) == Basename(watchDir)

\* The handler looking every subscription up as the first directory.
subscriptionToSourcePath_first(subName) == {SyncDirs[1]}

\* subscriptionToSourcePath.get(subName): the directory that registered the
\* name, none when there is no entry.
subscriptionToSourcePath(subName) ==
    {r \in subscribed : SubNameOf(r) = subName}

\* The batch handler the watcher is given: the batch goes to the debouncer.
onFileChangeBatch(buffer, files) == queueChanges(buffer, files)

\* queryAllChanges for one directory: the query since the saved clock is
\* answered, the clock of the response is saved, then the batch is handed on.
queryAllChanges(r) ==
    /\ run = "watch"
    /\ clocks' = setClock(clocks, r, svcClock[r], dryRun)
    /\ \E files \in FileLists(r, ChangedSince(r, clocks[r]), 0, svcClock[r]) :
         pendingChanges' = onFileChangeBatch(pendingChanges, files)
    /\ reported' = ReportedAfter(r, ChangedSince(r, clocks[r]), svcClock[r])
    /\ UNCHANGED ctlVars
    /\ UNCHANGED <<syncJobs, run, dryRun, debounceTimer, isProcessing, job, queried,
                   subscribed, listening, envVars, hist, enqTick, lastEnqClock,
                   passReturned, nEvents, nFailures, nRuns, env>>

\* setupWatchSubscriptions, lines 289-344: the subscriptions of an earlier
\* setup are torn down and the listener is registered.
setupWatchSubscriptions ==
    /\ run = "watch"
    /\ subscribed' = {}
    /\ listening' = TRUE
    /\ UNCHANGED ctlVars
    /\ UNCHANGED <<storeVars, run, dryRun, pendingChanges, debounceTimer, isProcessing,
                   job, queried, envVars, histVars>>

\* setupWatchSubscriptions, lines 351-388, for one directory: the
\* subscription since the saved clock is registered under its name.
subscribeWatchman(r) ==
    /\ run = "watch"
    /\ listening
    /\ r \notin subscribed
    /\ subscribed' = subscribed \cup {r}
    /\ subCursor' = [subCursor EXCEPT ![r] = clocks[r]]
    /\ UNCHANGED ctlVars
    /\ UNCHANGED ino
    /\ UNCHANGED <<storeVars, run, dryRun, pendingChanges, debounceTimer, isProcessing,
                   job, queried, listening, now, local, svcClock, changedAt, remote,
                   mirror, histVars>>

\* The listener of lines 293-344 handles an event of the subscription of
\* directory r: the batch is handed on under the directory the name is
\* looked up as, then the clock of the event is saved for that directory.
onSubscription(r) ==
    /\ run = "watch"
    /\ listening
    /\ r \in subscribed
    /\ ChangedSince(r, subCursor[r]) # {}
    /\ subCursor' = [subCursor EXCEPT ![r] = svcClock[r]]
    /\ \E resolvedRoot \in subscriptionToSourcePath(SubNameOf(r)) :
         /\ \E files \in FileLists(resolvedRoot,
                                   ChangedSince(r, subCursor[r]),
                                   svcClock[r], svcClock[r]) :
              pendingChanges' = onFileChangeBatch(pendingChanges, files)
         /\ reported' = ReportedAfter(resolvedRoot, ChangedSince(r, subCursor[r]),
                                      svcClock[r])
         /\ clocks' = setClock(clocks, resolvedRoot, svcClock[r], dryRun)
    /\ UNCHANGED ctlVars
    /\ UNCHANGED ino
    /\ UNCHANGED <<syncJobs, run, dryRun, debounceTimer, isProcessing, job, queried,
                   subscribed, listening, now, local, svcClock, changedAt, remote,
                   mirror, hist, enqTick, lastEnqClock, passReturned, nEvents,
                   nFailures, nRuns, env>>

WatcherInit ==
    /\ env = [maxEvents |-> WatcherEvents, maxFailures |-> 0, quiet |-> FALSE,
              initPaths |-> {<<SyncDirs[1], "a">>},
              togglePaths |-> {<<SyncDirs[1], "a">>, <<SyncDirs[2], "a">>},
              modifyPaths |-> {<<SyncDirs[1], "a">>},
              failPaths |-> {}]
    /\ InitCommon
    /\ run = "watch"
    /\ dryRun = FALSE

WatcherNext ==
    \/ \E r \in Roots : queryAllChanges(r)
    \/ setupWatchSubscriptions
    \/ \E r \in Roots : subscribeWatchman(r)
    \/ \E r \in Roots : onSubscription(r)
    \/ \E p \in LocalPaths : FsChange(p)

WatcherSpec == WatcherInit /\ [][WatcherNext]_vars

(***************************************************************************)
(* The control plane: the commands another process runs against a running  *)
(* daemon, and the daemon's poll for the stop signal.                      *)
(***************************************************************************)
NoVariant == ""
PAUSED == <<"paused", NoVariant>>

\* flags.js and signals.js.
isAlreadyRunning == run # "off"
isPaused == PAUSED \in flags
setFlag(fl, flag) == fl \cup {flag}
clearFlag(fl, flag) == fl \ {flag}
sendSignal(sg, signal) == sg \cup {signal}

\* pauseCommand of pause.ts: the signal is sent; the command then only polls
\* the flag.
pauseCommand ==
    /\ isAlreadyRunning
    /\ ~isPaused
    /\ signals' = sendSignal(signals, "pause-sync")
    /\ UNCHANGED <<flags, wmVars, unitVars, syncJobs, clocks, procVars, envVars, histVars>>

\* pauseCommand of reset.ts: the flag is set by the command itself.
pauseCommandFlag ==
    /\ isAlreadyRunning
    /\ ~isPaused
    /\ flags' = setFlag(flags, PAUSED)
    /\ UNCHANGED <<signals, wmVars, unitVars, syncJobs, clocks, procVars, envVars, histVars>>

\* resumeCommand of resume.ts: the flag is cleared by the command itself.
resumeCommand ==
    /\ isAlreadyRunning
    /\ isPaused
    /\ flags' = clearFlag(flags, PAUSED)
    /\ UNCHANGED <<signals, wmVars, unitVars, syncJobs, clocks, procVars, envVars, histVars>>

\* resumeCommand of part_004: the signal is sent; the command then only
\* polls the flag.
resumeCommandSignal ==
    /\ isAlreadyRunning
    /\ isPaused
    /\ signals' = sendSignal(signals, "resume-sync")
    /\ UNCHANGED <<flags, wmVars, unitVars, syncJobs, clocks, procVars, envVars, histVars>>

hasSignal(sg, signal) == signal \in sg
consumeSignal(sg, signal) == sg \ {signal}

\* stopCommand of stop.ts: the signal is sent; the command then only polls
\* for the daemon to be gone.
stopCommand ==
    /\ isAlreadyRunning
    /\ ~hasSignal(signals, "stop")
    /\ signals' = sendSignal(signals, "stop")
    /\ UNCHANGED <<flags, wmVars, unitVars, syncJobs, clocks, procVars, envVars, histVars>>

\* startCommand, lines 408-417: the poll of the watch-mode daemon finds the
\* stop signal, consumes it and calls process.exit(0).
stopSignalCheck ==
    /\ run = "watch"
    /\ hasSignal(signals, "stop")
    /\ signals' = consumeSignal(signals, "stop")
    /\ flags' = flags
    /\ UNCHANGED wmVars
    /\ UNCHANGED unitVars
    /\ ProcessEnds

\* The watch-mode daemon with the stop command run against it.
StopNext ==
    \/ Next
    \/ stopCommand
    \/ stopSignalCheck

StopSpec == Init /\ [][StopNext]_vars

\* The watch-mode daemon with pause and resume commands run against it.
PauseNext ==
    \/ Next
    \/ pauseCommand
    \/ pauseCommandFlag
    \/ resumeCommand
    \/ resumeCommandSignal

PauseSpec == Init /\ [][PauseNext]_vars

(***************************************************************************)
(* Properties.                                                             *)
(***************************************************************************)
Rows == DOMAIN syncJobs
RowsOf(path) == {i \in Rows : syncJobs[i].localPath = path}
PendingRows == {i \in Rows : syncJobs[i].status = PENDING}
Finished(i) == syncJobs[i].status \in {SYNCED, BLOCKED}
\* The executor has finished at least one visit of row i and is not visiting it.
Visited(i) == hist[i].visits > 0 /\ job.id # i

\* File events have stopped and the program has nothing left to do: no
\* change is unpublished or buffered, no pass is running, no timer is armed.
Quiescent ==
    /\ listening
    /\ \A r \in Roots : ChangedSince(r, subCursor[r]) = {}
    /\ pendingChanges = <<>>
    /\ ~isProcessing
    /\ ~debounceTimer

\* C1: once file events have stopped and no row is PENDING, every local path
\* that has jobs, all of them SYNCED, has a remote node if and only if it
\* exists locally.
C1_Convergence ==
    (Quiescent /\ PendingRows = {}) =>
        \A p \in LocalPaths :
            (RowsOf(p) # {} /\ \A i \in RowsOf(p) : syncJobs[i].status = SYNCED) =>
                (remote[RemotePathOf(p[1], p[2])] # "none" <=> local[p] # "none")

\* C2: at most one row per local path is PENDING (a row being executed stays
\* PENDING in the store: it is the PROCESSING row of the claim).
C2_OnePendingPerPath ==
    \A i, k \in Rows :
        (i # k /\ syncJobs[i].localPath = syncJobs[k].localPath) =>
            ~(syncJobs[i].status = PENDING /\ syncJobs[k].status = PENDING)

\* C3: of two jobs on the same local path, the one enqueued later is not
\* attempted before the one enqueued first is done, also when the first
\* failed and waits for a retry.
C3_PerPathOrder ==
    \A i, k \in Rows :
        (i < k /\ syncJobs[i].localPath = syncJobs[k].localPath /\ hist[k].attempts > 0) =>
            Finished(i)

\* C4: wherever the process stops, no persisted clock covers a change that
\* was handed to the program in a batch and is not in the job store.
C4_ClockAfterEnqueue ==
    run = "off" =>
        \A p \in LocalPaths :
            reported[p].tick > enqTick[p] => clocks[p[1]] < reported[p].clock

\* C5: the clock persisted for a root is at least the clock of the batch
\* that produced the last event enqueued for the root.
C5_ClockCoversEnqueued ==
    \A r \in Roots : clocks[r] >= lastEnqClock[r]

\* C6: after processAllPendingJobs has returned, and until a new event
\* arrives, no row is PENDING.
C6_DrainedAfterPass ==
    passReturned => PendingRows = {}

\* C7: a PENDING row whose retry_at has passed is being dispatched or will
\* be without a further file event: a pass is running or a timer is armed.
C7_DueRowIsDispatched ==
    (\E i \in PendingRows : syncJobs[i].retryAt <= ToTimestamp(now)) =>
        (isProcessing \/ debounceTimer)

\* C8: a row none of whose attempts succeeded is attempted at most
\* MAX_RETRIES + 1 times, each failure short of that schedules one more
\* retry, and it is BLOCKED exactly when its first attempt and its
\* MAX_RETRIES retries have failed; it then holds the message of the last
\* failure and is not attempted again.
C8_BlockedAfterMaxRetries ==
    \A i \in Rows :
        hist[i].oks = 0 =>
            /\ hist[i].attempts <= MAX_RETRIES + 1
            /\ syncJobs[i].status = BLOCKED <=> hist[i].fails = MAX_RETRIES + 1
            /\ syncJobs[i].status = BLOCKED =>
                  /\ syncJobs[i].nRetries = MAX_RETRIES
                  /\ syncJobs[i].lastError = hist[i].lastMsg
                  /\ hist[i].attempts = MAX_RETRIES + 1
                  /\ job.id # i
            /\ syncJobs[i].status = PENDING => syncJobs[i].nRetries = hist[i].fails

\* A row is BLOCKED after its first attempt and all its retries failed.
C8_Witness ==
    \E i \in Rows : syncJobs[i].status = BLOCKED /\ hist[i].fails = MAX_RETRIES + 1

\* C9: n_retries of every row is at most MAX_RETRIES.
C9_RetriesBounded ==
    \A i \in Rows : syncJobs[i].nRetries <= MAX_RETRIES

\* A row waits for its last retry.
C9_Witness ==
    \E i \in Rows : syncJobs[i].nRetries = MAX_RETRIES /\ syncJobs[i].status = PENDING

\* C10, as stated: a row the executor has finished a visit of and whose
\* n_retries is MAX_RETRIES is SYNCED or BLOCKED.
C10_AsStated ==
    \A i \in Rows :
        (Visited(i) /\ syncJobs[i].nRetries = MAX_RETRIES) => Finished(i)

\* C10, amended: a row whose last finished visit began with n_retries equal
\* to MAX_RETRIES is SYNCED or BLOCKED.
C10_LastVisitSettles ==
    \A i \in Rows :
        (Visited(i) /\ hist[i].startRetries = MAX_RETRIES) => Finished(i)

\* The last retry of a row succeeded.
C10_Witness ==
    \E i \in Rows :
        /\ Visited(i)
        /\ hist[i].startRetries = MAX_RETRIES
        /\ syncJobs[i].status = SYNCED

\* C11: SYNCED and BLOCKED are terminal: no step selects a row that is
\* SYNCED or BLOCKED, starts a remote operation for it or changes any of
\* its fields.
C11_TerminalRows ==
    [][\A i \in Rows :
          Finished(i) => (syncJobs'[i] = syncJobs[i] /\ job'.id # i)]_vars

\* A row is BLOCKED and the executor, selecting on the store that holds
\* it, has started the remote operation of another row.
C11_Witness ==
    \E i \in Rows :
        /\ syncJobs[i].status = BLOCKED
        /\ job.id # 0
        /\ job.id # i

\* C12: a row that is SYNCED has n_retries equal to the number of its
\* failed attempts and no last_error; a failure that leaves the row PENDING
\* gives it a retry_at later than the time of the failure; and no row is
\* dispatched before its retry_at.
C12_RetryThenSynced ==
    [][\A i \in DOMAIN syncJobs' :
          /\ syncJobs'[i].status = SYNCED =>
                /\ syncJobs'[i].nRetries = hist'[i].fails
                /\ syncJobs'[i].lastError = Null
          /\ (i \in Rows /\ hist'[i].fails = hist[i].fails + 1
                /\ syncJobs'[i].status = PENDING) =>
                /\ 1000 * syncJobs'[i].retryAt > now
                /\ job'.id # i
          /\ (job'.id = i /\ job.id # i) => 1000 * syncJobs'[i].retryAt <= now']_vars

\* A row failed on its first attempt and on all its retries but the last,
\* which succeeded.
C12_Witness ==
    \E i \in Rows :
        /\ syncJobs[i].status = SYNCED
        /\ hist[i].fails = MAX_RETRIES
        /\ hist[i].oks = 1

\* The bounds of the claimed range of the delay for n_retries = k.
Clip(ms) ==
    IF ms < BASE_RETRY_DELAY_MS THEN BASE_RETRY_DELAY_MS
    ELSE IF ms > MAX_RETRY_DELAY_MS THEN MAX_RETRY_DELAY_MS
    ELSE ms

\* C13: the delay scheduleRetry adds to the current time for n_retries = k
\* lies between BASE * 2^k and 1.5 * BASE * 2^k, both clipped to [BASE, MAX].
C13_DelayInRange ==
    \A i \in Rows :
        hist[i].delay # 0 =>
            /\ hist[i].delay >= Clip(BASE_RETRY_DELAY_MS * Pow2(hist[i].startRetries))
            /\ hist[i].delay <=
                   Clip((3 * BASE_RETRY_DELAY_MS * Pow2(hist[i].startRetries)) \div 2)

C15_DryRunLeavesDrive ==
    dryRun => /\ \A q \in RemotePaths : remote[q] = "none"
              /\ \A d \in Dirs : mirror[d] = "none"

\* C16: while a PENDING row exists for a local path, no step adds a row for
\* that path (an enqueue rewrites the existing row instead).
C16_Supersedure ==
    [][\A i \in Rows :
          syncJobs[i].status = PENDING =>
              \A k \in DOMAIN syncJobs' :
                  syncJobs'[k].localPath = syncJobs[i].localPath => k \in Rows]_vars

\* The rows a step adds for a local path.
NewRowsOf(path) ==
    {k \in DOMAIN syncJobs' : k \notin Rows /\ syncJobs'[k].localPath = path}

\* C17: a flush of the buffer enqueues, for every path with events received
\* since the last flush, exactly one job, whose event type is that of the
\* last event received for the path.
C17_DebounceCoalesces ==
    [][(pendingChanges # <<>> /\ pendingChanges' = <<>> /\ run' # "off") =>
          \A p \in LocalPaths :
              reported[p].tick > enqTick[p] =>
                  /\ Cardinality(NewRowsOf(p)) = 1
                  /\ \A k \in NewRowsOf(p) :
                        syncJobs'[k].eventType =
                            EventTypeOf([exists |-> reported[p].exists,
                                         type |-> KindOf(p[2])])]_vars

\* C18: a row whose remote operation was under way when the process was
\* killed is eligible again after the kill (still PENDING, never retried,
\* due), and its next visit ends as the first visit of a row that was never
\* killed does: unless a drive call fails or the local path is gone, the row
\* becomes SYNCED with n_retries 0 and the remote path holds what the
\* operation puts there, however far the killed operation had got.
C18_RestartRecovery ==
    [][\A i \in Rows :
          (hist[i].killed # "no" /\ hist[i].visits = 0) =>
              /\ job.id # i =>
                    /\ syncJobs[i].status = PENDING
                    /\ syncJobs[i].nRetries = 0
                    /\ 1000 * syncJobs[i].retryAt <= now
              /\ (job.id = i /\ hist'[i].visits = 1 /\ nFailures' = nFailures
                    /\ job.stat # "none") =>
                    /\ syncJobs'[i].status = SYNCED
                    /\ syncJobs'[i].nRetries = 0
                    /\ syncJobs'[i].lastError = Null
                    /\ remote'[job.remotePath] =
                          (IF job.eventType = DELETE THEN "none"
                           ELSE IF job.stat = "d" THEN "folder" ELSE "file")
                    /\ job.eventType # DELETE => mirror'[job.remotePath[1]] = "folder"]_vars

\* A row whose operation had reached the drive when the process was killed
\* has been visited once by a later run and is SYNCED.
C18_Witness ==
    \E i \in Rows : /\ hist[i].killed = "done"
                     /\ hist[i].visits = 1
                     /\ syncJobs[i].status = SYNCED
                     /\ job.id # i

\* The visit of the row in flight ends in this step.
VisitEnds ==
    /\ job.id # 0
    /\ job.id \in DOMAIN hist'
    /\ hist'[job.id].visits = hist[job.id].visits + 1

\* C19: a visit of a DELETE job whose remote path has no node (no node of
\* the parent's name, a parent that is not a folder, or no node of the
\* target's name in the parent) succeeds unless the drive fails: the row
\* becomes SYNCED without a retry being counted, no mutating call is issued
\* on the drive client and the remote tree is left as it was.
C19_DeleteOfMissingNode ==
    [][(/\ VisitEnds
        /\ job.eventType = DELETE
        /\ mirror[job.remotePath[1]] # "folder" \/ remote[job.remotePath] = "none"
        /\ nFailures' = nFailures) =>
           /\ syncJobs'[job.id].status = SYNCED
           /\ syncJobs'[job.id].nRetries = job.nRetries
           /\ hist'[job.id].calls = {}
           /\ remote' = remote
           /\ mirror' = mirror]_vars

\* A DELETE row was SYNCED by its first visit, without any call, while the
\* node named like its parent is a file.
C19_Witness ==
    \E i \in Rows : /\ syncJobs[i].eventType = DELETE
                     /\ syncJobs[i].status = SYNCED
                     /\ syncJobs[i].nRetries = 0
                     /\ hist[i].visits = 1
                     /\ hist[i].calls = {}
                     /\ mirror[syncJobs[i].remotePath[1]] = "file"

\* C20: a visit of a CREATE job for a local directory whose remote path
\* already holds a folder succeeds unless the drive fails: the row becomes
\* SYNCED, no createFolder call (no mutating call at all) is issued and the
\* remote tree is left as it was, with its one folder of that name.
C20_CreateOfExistingFolder ==
    [][(/\ VisitEnds
        /\ job.eventType = CREATE
        /\ job.stat = "d"
        /\ mirror[job.remotePath[1]] = "folder"
        /\ remote[job.remotePath] = "folder"
        /\ nFailures' = nFailures) =>
           /\ syncJobs'[job.id].status = SYNCED
           /\ hist'[job.id].calls = {}
           /\ remote' = remote
           /\ mirror' = mirror]_vars

\* A CREATE row was SYNCED by a visit that issued no call: the folder was there.
C20_Witness ==
    \E i \in Rows : /\ syncJobs[i].eventType = CREATE
                     /\ syncJobs[i].status = SYNCED
                     /\ hist[i].oks = 1
                     /\ hist[i].calls = {}
                     /\ remote[syncJobs[i].remotePath] = "folder"

\* C21: a successful visit of an UPDATE job for a local file creates a file
\* node (one uploadFile call) exactly when the parent folder holds no file
\* of that name, and otherwise uploads a new revision of the file found by
\* name without creating a node; so no file node is ever created beside a
\* file node of the same name.
C21_OneFileNodePerName ==
    [][(/\ VisitEnds
        /\ job.eventType = UPDATE
        /\ job.stat = "f"
        /\ hist'[job.id].oks = hist[job.id].oks + 1) =>
           LET found == /\ mirror[job.remotePath[1]] = "folder"
                        /\ remote[job.remotePath] = "file"
           IN  /\ found => hist'[job.id].calls = {"uploadRevision"}
               /\ ~found => /\ "uploadFile" \in hist'[job.id].calls
                             /\ "uploadRevision" \notin hist'[job.id].calls
               /\ remote'[job.remotePath] = "file"]_vars

\* Two UPDATE rows of one path are SYNCED: one created the file node, the
\* other uploaded a revision of it.
C21_Witness ==
    \E i, k \in Rows :
        /\ syncJobs[i].remotePath = syncJobs[k].remotePath
        /\ syncJobs[i].eventType = UPDATE /\ syncJobs[k].eventType = UPDATE
        /\ syncJobs[i].status = SYNCED /\ syncJobs[k].status = SYNCED
        /\ "uploadFile" \in hist[i].calls
        /\ hist[k].calls = {"uploadRevision"}

\* C22: while the PAUSED flag is set the executor selects no job, no
\* PENDING row changes its status and no remote operation reaches the drive.
C22_PausedDispatchesNothing ==
    [][isPaused =>
          /\ job'.id # 0 => job' = job
          /\ \A i \in Rows : syncJobs[i].status = PENDING => syncJobs'[i].status = PENDING
          /\ remote' = remote
          /\ mirror' = mirror]_vars

\* C23: the step that handles the stop signal consumes it, ends the process
\* and leaves, for every change that was buffered in the debouncer, a new
\* row in the job store.
C23_StopDrainsBuffer ==
    [][(hasSignal(signals, "stop") /\ ~hasSignal(signals', "stop")) =>
          /\ run' = "off"
          /\ pendingChanges' = <<>>
          /\ \A i \in DOMAIN pendingChanges :
                NewRowsOf(LocalPathOf(pendingChanges[i].watchRoot,
                                      pendingChanges[i].name)) # {}]_vars

MovedPairs ==
    {pr \in (DOMAIN pendingChanges) \X (DOMAIN pendingChanges) :
        /\ pendingChanges[pr[1]].watchRoot = pendingChanges[pr[2]].watchRoot
        /\ pendingChanges[pr[1]].batch = pendingChanges[pr[2]].batch
        /\ ~pendingChanges[pr[1]].exists
        /\ pendingChanges[pr[2]].exists
        /\ pendingChanges[pr[1]].ino # 0
        /\ pendingChanges[pr[1]].ino = pendingChanges[pr[2]].ino}

\* C25: a flush of a buffer that holds a removed record and an added record
\* of one batch with the same inode enqueues one MOVE job for the pair, on
\* the new path, and no DELETE job for the old path.
C25_MovePairing ==
    [][(pendingChanges # <<>> /\ pendingChanges' = <<>> /\ run' # "off") =>
          \A pr \in MovedPairs :
              LET old == LocalPathOf(pendingChanges[pr[1]].watchRoot, pendingChanges[pr[1]].name)
                  new == LocalPathOf(pendingChanges[pr[2]].watchRoot, pendingChanges[pr[2]].name)
              IN /\ \E k \in NewRowsOf(new) : syncJobs'[k].eventType = "MOVE"
                 /\ \A k \in NewRowsOf(old) : syncJobs'[k].eventType # DELETE]_vars

\* The paths with a change handed to the program that no flush has enqueued.
Unenqueued == {p \in LocalPaths : reported[p].tick > enqTick[p]}

\* The change last handed to the program for path p is in the buffer.
Buffered(buffer, p, tick) ==
    \E i \in DOMAIN buffer :
        /\ LocalPathOf(buffer[i].watchRoot, buffer[i].name) = p
        /\ buffer[i].tick = tick

\* C27: while a pass is running the changes that arrive stay in the buffer
\* (a timer that fires during the pass flushes nothing); whenever no pass is
\* running and the buffer is not empty the timer is armed, so a later pass
\* flushes it; that flush enqueues exactly one job for every change that was
\* handed to the program and not enqueued yet.
C27_ArrivalsDuringPass ==
    [][/\ (isProcessing /\ isProcessing' /\ run' = "watch") =>
            /\ \A p \in Unenqueued' :
                  (reported'[p] # reported[p] \/ Buffered(pendingChanges, p, reported[p].tick))
                      => Buffered(pendingChanges', p, reported'[p].tick)
            /\ \A p \in LocalPaths : NewRowsOf(p) = {}
       /\ (run' = "watch" /\ ~isProcessing' /\ pendingChanges' # <<>>) => debounceTimer'
       /\ (run' = "watch" /\ pendingChanges # <<>> /\ pendingChanges' = <<>>) =>
            \A p \in Unenqueued : Cardinality(NewRowsOf(p)) = 1]_vars

\* C28: every status change of a row is PENDING -> PROCESSING,
\* PROCESSING -> SYNCED, PROCESSING -> PENDING or PROCESSING -> BLOCKED, and
\* the row whose remote operation is in flight has status PROCESSING.
C28_StatusMachine ==
    [][/\ \A i \in Rows :
            syncJobs'[i].status # syncJobs[i].status =>
                <<syncJobs[i].status, syncJobs'[i].status>> \in
                    {<<PENDING, "PROCESSING">>, <<"PROCESSING", SYNCED>>,
                     <<"PROCESSING", PENDING>>, <<"PROCESSING", BLOCKED>>}
       /\ job'.id # 0 => syncJobs'[job'.id].status = "PROCESSING"]_vars

\* A step in which processNextJob asks the store for the next job: the
\* remote operation of a job ends, or a flush starts a pass.
AsksNextJob ==
    \/ job.id # 0 /\ (job' # job \/ hist' # hist)
    \/ job.id = 0 /\ ~isProcessing /\ (isProcessing' \/ (passReturned' /\ ~passReturned))

\* C29: getNextPendingJob returns a row exactly when some row is PENDING
\* with retry_at <= now; the row it returns is such a row, no such row has a
\* smaller retry_at, and no such row of the same retry_at has a smaller id.
C29_NextJobOrder ==
    [][AsksNextJob =>
          /\ (job'.id # 0) <=> (ReadyJobs(syncJobs', now') # {})
          /\ job'.id # 0 =>
                /\ job'.id \in ReadyJobs(syncJobs', now')
                /\ \A k \in ReadyJobs(syncJobs', now') :
                      \/ syncJobs'[job'.id].retryAt < syncJobs'[k].retryAt
                      \/ /\ syncJobs'[job'.id].retryAt = syncJobs'[k].retryAt
                         /\ job'.id <= k]_vars

\* The rows whose remote operation a step starts.
Started ==
    {i \in DOMAIN hist' :
        hist'[i].attempts # (IF i \in DOMAIN hist THEN hist[i].attempts ELSE 0)}

\* C30: at most one job is in flight.  While the remote operation of a job
\* is under way no other operation starts and the job is not replaced: the
\* next one starts only in the step in which that operation ends, and a
\* timer that fires during the pass selects nothing and leaves the store and
\* the buffer as they are.
C30_OneJobInFlight ==
    [][(job.id # 0 /\ run' # "off") =>
          /\ (job' # job \/ Started # {}) => hist'[job.id].visits # hist[job.id].visits
          /\ Cardinality(Started) <= 1
          /\ (debounceTimer /\ ~debounceTimer' /\ hist'[job.id].visits = hist[job.id].visits) =>
                /\ syncJobs' = syncJobs
                /\ pendingChanges' = pendingChanges
                /\ job' = job]_vars

\* A timer has fired during a pass: a job is in flight, the buffer holds a
\* change and no timer is armed.
C30_Witness ==
    /\ run = "watch"
    /\ isProcessing
    /\ job.id # 0
    /\ pendingChanges # <<>>
    /\ ~debounceTimer

(***************************************************************************)
(* The service process: connectWatchman and shutdownWatchman, watcher.ts.   *)
(***************************************************************************)
WatchmanRuns == 3
WatchmanEvents == 3

WATCHMAN_RUNNING == "watchman_running"
SPAWNED == "spawned"
EXISTING == "existing"

\* flags.js with a variant: a flag holds one variant at a time.
setFlagData(fl, name, variant) == {f \in fl : f[1] # name} \cup {<<name, variant>>}
getFlagData(fl, name) ==
    IF \E f \in fl : f[1] = name THEN (CHOOSE f \in fl : f[1] = name)[2] ELSE Null
clearFlagAllVariants(fl, name) == {f \in fl : f[1] # name}

isWatchmanRunning_always(up) == TRUE

\* watchman get-pid --no-spawn
isWatchmanRunning(up) ==
    up

\* connectWatchman, line 77: the check before the client connects.
connectCheck ==
    /\ connectPc = "idle"
    /\ nRuns <= WatchmanRuns
    /\ nRuns' = nRuns + 1
    /\ wasRunning' = isWatchmanRunning(watchmanUp)
    /\ upBefore' = watchmanUp
    /\ connectPc' = "checked"
    /\ UNCHANGED <<flags, signals, watchmanUp, nShutdowns, nSpared>>
    /\ UNCHANGED unitVars
    /\ UNCHANGED <<storeVars, procVars, envVars, hist, enqTick, reported, lastEnqClock,
                   passReturned, nEvents, nFailures, env>>

\* connectWatchman, lines 80-91: the `version` command starts the service if
\* it does not run; the flag records what the check found.
connectVersion ==
    /\ connectPc = "checked"
    /\ watchmanUp' = TRUE
    /\ flags' = setFlagData(flags, WATCHMAN_RUNNING, IF ~wasRunning THEN SPAWNED ELSE EXISTING)
    /\ signals' = sendSignal(signals, "refresh-dashboard")
    /\ connectPc' = "connected"
    /\ UNCHANGED <<wasRunning, upBefore, nShutdowns, nSpared>>
    /\ UNCHANGED unitVars
    /\ UNCHANGED <<storeVars, procVars, envVars, histVars>>

\* shutdownWatchman, lines 100-107.
shutdownWatchman ==
    /\ connectPc = "connected"
    /\ IF getFlagData(flags, WATCHMAN_RUNNING) = SPAWNED
       THEN /\ watchmanUp' = FALSE
            /\ nShutdowns' = nShutdowns + 1
            /\ nSpared' = nSpared
       ELSE /\ nSpared' = nSpared + 1
            /\ UNCHANGED <<watchmanUp, nShutdowns>>
    /\ flags' = clearFlagAllVariants(flags, WATCHMAN_RUNNING)
    /\ connectPc' = "idle"
    /\ UNCHANGED <<signals, wasRunning, upBefore>>
    /\ UNCHANGED unitVars
    /\ UNCHANGED <<storeVars, procVars, envVars, histVars>>

\* The daemon dies between connectWatchman and shutdownWatchman: the flag
\* stays in the store.
DaemonDies ==
    /\ connectPc # "idle"
    /\ connectPc' = "idle"
    /\ UNCHANGED <<flags, signals, watchmanUp, wasRunning, upBefore, nShutdowns, nSpared>>
    /\ UNCHANGED unitVars
    /\ UNCHANGED <<storeVars, procVars, envVars, histVars>>

\* Somebody else starts or stops the service process.
ServiceToggles ==
    /\ nEvents < env.maxEvents
    /\ nEvents' = nEvents + 1
    /\ watchmanUp' = ~watchmanUp
    /\ UNCHANGED <<flags, signals, connectPc, wasRunning, upBefore, nShutdowns, nSpared>>
    /\ UNCHANGED unitVars
    /\ UNCHANGED <<storeVars, procVars, envVars, hist, enqTick, reported, lastEnqClock,
                   passReturned, nFailures, nRuns, env>>

WatchmanInit ==
    /\ env = [maxEvents |-> WatchmanEvents, maxFailures |-> 0, quiet |-> FALSE,
              initPaths |-> {}, togglePaths |-> {}, modifyPaths |-> {}, failPaths |-> {}]
    /\ syncJobs = <<>>
    /\ hist = <<>>
    /\ now = 0
    /\ InitDaemon
    /\ InitUnits
    /\ watchmanUp \in BOOLEAN
    /\ remote = [q \in RemotePaths |-> "none"]
    /\ mirror = [d \in Dirs |-> "none"]
    /\ run = "watch"
    /\ dryRun = FALSE

WatchmanNext ==
    \/ connectCheck
    \/ connectVersion
    \/ shutdownWatchman
    \/ DaemonDies
    \/ ServiceToggles

WatchmanSpec == WatchmanInit /\ [][WatchmanNext]_vars

\* C26: connectWatchman records SPAWNED exactly when the service did not run
\* before the daemon connected, and EXISTING otherwise; shutdownWatchman asks
\* the service to terminate exactly when the recorded variant is SPAWNED, and
\* leaves no WATCHMAN_RUNNING flag behind in either case.
C26_ShutdownOnlyIfSpawned ==
    [][/\ (connectPc = "checked" /\ connectPc' = "connected") =>
            getFlagData(flags', WATCHMAN_RUNNING) = (IF upBefore THEN EXISTING ELSE SPAWNED)
       /\ (connectPc = "connected" /\ connectPc' = "idle" /\ flags' # flags) =>
            /\ (nShutdowns' = nShutdowns + 1) <=> (getFlagData(flags, WATCHMAN_RUNNING) = SPAWNED)
            /\ getFlagData(flags, WATCHMAN_RUNNING) = EXISTING =>
                    nShutdowns' = nShutdowns /\ watchmanUp' = watchmanUp
            /\ getFlagData(flags', WATCHMAN_RUNNING) = Null
       /\ nShutdowns' # nShutdowns => (connectPc = "connected" /\ connectPc' = "idle")]_vars

\* A daemon has shut down a service it had spawned, a daemon has left alone a
\* service it had found running, and no flag is left.
C26_Witness ==
    /\ nShutdowns >= 1
    /\ nSpared >= 1
    /\ connectPc = "idle"
    /\ getFlagData(flags, WATCHMAN_RUNNING) = Null

(***************************************************************************)
(* Lookup by name in a folder: findFileByName and findFolderByName of       *)
(* part_000, findNodeByName of part_003.                                    *)
(***************************************************************************)
MaxChildren == 3

\* What iterateFolderChildren can yield for one child: a node (ok) or a
\* degraded entry (not ok, no value); the uid of a child is its position.
ChildKinds == [ok : BOOLEAN, name : {"a", "b"}, type : {"file", "folder"}]

ChildLists ==
    UNION {[1 .. n -> ChildKinds] : n \in 0 .. MaxChildren}

NoNode == [uid |-> 0, type |-> "none"]

\* The condition of the loop body, without its `!found` part.
Matches(fn, node, name) ==
    /\ node.ok
    /\ node.name = name
    /\ \/ fn = "findNodeByName"
       \/ fn = "findFileByName" /\ node.type = "file"
       \/ fn = "findFolderByName" /\ node.type = "folder"

\* A variant of the loop that leaves it at the first match.
RECURSIVE FindLoop_stopsAtMatch(_, _, _, _, _)
FindLoop_stopsAtMatch(fn, ch, name, i, acc) ==
    IF i > Len(ch) \/ acc.found # NoNode THEN acc
    ELSE FindLoop_stopsAtMatch(fn, ch, name, i + 1,
            [found |-> IF Matches(fn, ch[i], name)
                       THEN [uid |-> i, type |-> ch[i].type] ELSE acc.found,
             consumed |-> acc.consumed + 1])

\* for await (const node of client.iterateFolderChildren(uid)) { ... }:
\* the loop has no break; `found` is set once.
RECURSIVE FindLoop(_, _, _, _, _)
FindLoop(fn, ch, name, i, acc) ==
    IF i > Len(ch) THEN acc
    ELSE FindLoop(fn, ch, name, i + 1,
            [found |-> IF acc.found = NoNode /\ Matches(fn, ch[i], name)
                       THEN [uid |-> i, type |-> ch[i].type] ELSE acc.found,
             consumed |-> acc.consumed + 1])

findByName(fn, ch, name) ==
    FindLoop(fn, ch, name, 1, [found |-> NoNode, consumed |-> 0])

\* What a call of fn for `name` on the folder leaves behind.
FindResult(fn, name) ==
    [fn |-> fn, name |-> name,
     found |-> findByName(fn, children, name).found,
     consumed |-> findByName(fn, children, name).consumed]

findFileByName(name) ==
    /\ findRun' = FindResult("findFileByName", name)
    /\ UNCHANGED <<children, tree, ensureRun, timers, timerRef, lastBatchAt, flags, signals, wmVars, subsVars>>
    /\ UNCHANGED <<storeVars, procVars, envVars, histVars>>

findFolderByName(name) ==
    /\ findRun' = FindResult("findFolderByName", name)
    /\ UNCHANGED <<children, tree, ensureRun, timers, timerRef, lastBatchAt, flags, signals, wmVars, subsVars>>
    /\ UNCHANGED <<storeVars, procVars, envVars, histVars>>

findNodeByName(name) ==
    /\ findRun' = FindResult("findNodeByName", name)
    /\ UNCHANGED <<children, tree, ensureRun, timers, timerRef, lastBatchAt, flags, signals, wmVars, subsVars>>
    /\ UNCHANGED <<storeVars, procVars, envVars, histVars>>

FindInit ==
    /\ env = [maxEvents |-> 0, maxFailures |-> 0, quiet |-> TRUE,
              initPaths |-> {}, togglePaths |-> {}, modifyPaths |-> {}, failPaths |-> {}]
    /\ syncJobs = <<>>
    /\ hist = <<>>
    /\ now = 0
    /\ InitDaemon
    /\ watchmanUp = TRUE
    /\ remote = [q \in RemotePaths |-> "none"]
    /\ mirror = [d \in Dirs |-> "none"]
    /\ run = "watch"
    /\ dryRun = FALSE
    /\ children \in ChildLists
    /\ findRun = NoFind
    /\ tree = {}
    /\ ensureRun = NoEnsure
    /\ timers = {}
    /\ timerRef = 0
    /\ lastBatchAt = 0
    /\ InitSubs

FindNext ==
    \/ \E name \in {"a", "b"} : findFileByName(name)
    \/ \E name \in {"a", "b"} : findFolderByName(name)
    \/ \E name \in {"a", "b"} : findNodeByName(name)

FindSpec == FindInit /\ [][FindNext]_vars

\* The positions of the children a call of fn for `name` may return.
MatchingChildren(fn, name) ==
    {i \in DOMAIN children : Matches(fn, children[i], name)}

\* C31: a find-by-name call reads every child the iterator yields, wherever
\* the match is and whether or not entries are degraded, and returns the
\* first matching child in iteration order, or nothing when none matches.
C31_FullIteration ==
    findRun # NoFind =>
        /\ findRun.consumed = Len(children)
        /\ IF MatchingChildren(findRun.fn, findRun.name) = {}
           THEN findRun.found = NoNode
           ELSE /\ findRun.found.uid = Min(MatchingChildren(findRun.fn, findRun.name))
                /\ findRun.found.type = children[findRun.found.uid].type

\* A call found its match at the first position, behind it a degraded entry
\* and one more child of the name.
C31_Witness ==
    /\ findRun # NoFind
    /\ Len(children) = MaxChildren
    /\ findRun.found.uid = 1
    /\ ~children[2].ok
    /\ children[3].ok /\ children[3].name = findRun.name
    /\ findRun.consumed = MaxChildren

(***************************************************************************)
(* ensureRemotePath of part_000 on a folder tree.                           *)
(***************************************************************************)
MaxDepth == 3

FolderNames == {"x", "y"}
FolderPaths == UNION {[1 .. n -> FolderNames] : n \in 1 .. MaxDepth}

\* The first n names of a path: the folder that deep on the way.
Prefix(parts, n) == SubSeq(parts, 1, n)

\* The folder trees: a folder exists only inside a folder that exists.
Trees ==
    {t \in SUBSET FolderPaths :
        \A f \in t : \A n \in 1 .. Len(f) : Prefix(f, n) \in t}

\* A variant of the loop that goes on searching after it has created a folder.
RECURSIVE EnsureLoop_keepsSearching(_, _, _, _, _, _)
EnsureLoop_keepsSearching(parts, i, needToCreate, failAt, folders, calls) ==
    IF i > Len(parts)
    THEN [ok |-> TRUE, uid |-> parts, calls |-> calls, folders |-> folders]
    ELSE IF Prefix(parts, i) \in folders
    THEN EnsureLoop_keepsSearching(parts, i + 1, FALSE, failAt, folders,
                                   Append(calls, <<"iterateFolderChildren", i>>))
    ELSE IF failAt = i
    THEN [ok |-> FALSE, uid |-> <<>>,
          calls |-> calls \o <<<<"iterateFolderChildren", i>>, <<"createFolder", i>>>>,
          folders |-> folders]
    ELSE EnsureLoop_keepsSearching(parts, i + 1, TRUE, failAt,
                                   folders \cup {Prefix(parts, i)},
                                   calls \o <<<<"iterateFolderChildren", i>>,
                                              <<"createFolder", i>>>>)

\* The loop of ensureRemotePath over pathParts from component i on.  `calls`
\* are the drive calls so far, each with the position of its component;
\* the createFolder of component failAt is the one that fails (0: none).
\* The uid of a folder is the path to it.
RECURSIVE EnsureLoop(_, _, _, _, _, _)
EnsureLoop(parts, i, needToCreate, failAt, folders, calls) ==
    IF i > Len(parts)
    THEN [ok |-> TRUE, uid |-> Prefix(parts, Len(parts)), calls |-> calls, folders |-> folders]
    ELSE IF needToCreate
    THEN IF failAt = i
         THEN [ok |-> FALSE, uid |-> <<>>,
               calls |-> Append(calls, <<"createFolder", i>>), folders |-> folders]
         ELSE EnsureLoop(parts, i + 1, TRUE, failAt, folders \cup {Prefix(parts, i)},
                         Append(calls, <<"createFolder", i>>))
    ELSE IF Prefix(parts, i) \in folders
    THEN EnsureLoop(parts, i + 1, FALSE, failAt, folders,
                    Append(calls, <<"iterateFolderChildren", i>>))
    ELSE IF failAt = i
    THEN [ok |-> FALSE, uid |-> <<>>,
          calls |-> calls \o <<<<"iterateFolderChildren", i>>, <<"createFolder", i>>>>,
          folders |-> folders]
    ELSE EnsureLoop(parts, i + 1, TRUE, failAt, folders \cup {Prefix(parts, i)},
                    calls \o <<<<"iterateFolderChildren", i>>, <<"createFolder", i>>>>)

\* ensureRemotePath(client, rootFolderUid, pathParts) on the tree.
ensureRemotePathCall(parts, failAt) ==
    /\ ensureRun' = [pathParts |-> parts, failAt |-> failAt,
                     out |-> EnsureLoop(parts, 1, FALSE, failAt, tree, <<>>)]
    /\ UNCHANGED <<children, findRun, tree, timers, timerRef, lastBatchAt, flags, signals, wmVars, subsVars>>
    /\ UNCHANGED <<storeVars, procVars, envVars, histVars>>

EnsureInit ==
    /\ env = [maxEvents |-> 0, maxFailures |-> 0, quiet |-> TRUE,
              initPaths |-> {}, togglePaths |-> {}, modifyPaths |-> {}, failPaths |-> {}]
    /\ syncJobs = <<>>
    /\ hist = <<>>
    /\ now = 0
    /\ InitDaemon
    /\ watchmanUp = TRUE
    /\ remote = [q \in RemotePaths |-> "none"]
    /\ mirror = [d \in Dirs |-> "none"]
    /\ run = "watch"
    /\ dryRun = FALSE
    /\ children = <<>>
    /\ findRun = NoFind
    /\ tree \in Trees
    /\ ensureRun = NoEnsure
    /\ timers = {}
    /\ timerRef = 0
    /\ lastBatchAt = 0
    /\ InitSubs

EnsureNext ==
    \E parts \in FolderPaths \cup {<<>>} : \E failAt \in 0 .. Len(parts) :
        ensureRemotePathCall(parts, failAt)

EnsureSpec == EnsureInit /\ [][EnsureNext]_vars

\* How many leading components of the path exist as folders.
ExistingDepth(parts) ==
    Cardinality({n \in 1 .. Len(parts) : Prefix(parts, n) \in tree})

\* C32: a call of ensureRemotePath that returns gives the folder at the full
\* path; it has looked up each existing leading component and the first
\* missing one, created the first missing component and every one after it
\* with one createFolder each, in order, and looked up none after the first
\* creation; the folders it found are untouched.
C32_EnsurePath ==
    (ensureRun # NoEnsure /\ ensureRun.out.ok) =>
        LET parts == ensureRun.pathParts
            n == Len(parts)
            k == ExistingDepth(parts)
            looked == IF k < n THEN k + 1 ELSE n
        IN /\ ensureRun.out.uid = parts
           /\ ensureRun.out.folders = tree \cup {Prefix(parts, i) : i \in 1 .. n}
           /\ ensureRun.out.calls =
                 [i \in 1 .. looked |-> <<"iterateFolderChildren", i>>]
                    \o [i \in 1 .. (n - k) |-> <<"createFolder", k + i>>]

\* A call on a path of three components of which the first existed: one
\* folder found, two created.
C32_Witness ==
    /\ ensureRun # NoEnsure
    /\ ensureRun.out.ok
    /\ Len(ensureRun.pathParts) = MaxDepth
    /\ ExistingDepth(ensureRun.pathParts) = 1
    /\ Len(ensureRun.out.calls) = MaxDepth + 1

(***************************************************************************)
(* The event type of a buffered record, processChanges of part_005.         *)
(***************************************************************************)
MaxBuffered == 2

\* The records a buffer can hold: any name of any root, gone or present,
\* marked new or not (part_005 does not ask the service for `new`).
BufferRecords ==
    {[name |-> n, exists |-> e, type |-> KindOf(n), new |-> nw,
      watchRoot |-> r, clock |-> 1, batch |-> 1, tick |-> 1, ino |-> 1] :
        n \in Names, e \in BOOLEAN, nw \in BOOLEAN, r \in Roots}

\* The buffers: a Map has one record per key.
Buffers ==
    {b \in UNION {[1 .. n -> BufferRecords] : n \in 0 .. MaxBuffered} :
        \A i, k \in DOMAIN b : i # k => b[i].name # b[k].name}

\* The watch-mode daemon with a buffer that is about to be flushed.
EventInit ==
    /\ env = [maxEvents |-> 0, maxFailures |-> 0, quiet |-> TRUE,
              initPaths |-> {}, togglePaths |-> {}, modifyPaths |-> {}, failPaths |-> {}]
    /\ syncJobs = <<>>
    /\ hist = <<>>
    /\ now = 0
    /\ clocks = [r \in Roots |-> 0]
    /\ flags = {}
    /\ signals = {}
    /\ connectPc = "idle"
    /\ wasRunning = FALSE
    /\ upBefore = FALSE
    /\ nShutdowns = 0
    /\ nSpared = 0
    /\ InitUnits
    /\ watchmanUp = TRUE
    /\ pendingChanges \in Buffers
    /\ debounceTimer = (pendingChanges # <<>>)
    /\ isProcessing = FALSE
    /\ job = NoJob
    /\ queried = {}
    /\ subscribed = Roots
    /\ listening = TRUE
    /\ local = [p \in LocalPaths |-> "none"]
    /\ ino = [p \in LocalPaths |-> 0]
    /\ svcClock = [r \in Roots |-> 1]
    /\ changedAt = [p \in LocalPaths |-> 0]
    /\ subCursor = [r \in Roots |-> 1]
    /\ enqTick = [p \in LocalPaths |-> 0]
    /\ reported = [p \in LocalPaths |-> [tick |-> 0, clock |-> 0, exists |-> FALSE]]
    /\ lastEnqClock = [r \in Roots |-> 0]
    /\ passReturned = FALSE
    /\ nEvents = 0
    /\ nFailures = 0
    /\ nRuns = 1
    /\ remote = [q \in RemotePaths |-> "none"]
    /\ mirror = [d \in Dirs |-> "none"]
    /\ run = "watch"
    /\ dryRun = FALSE

EventNext ==
    \/ TimerFire
    \/ JobDone

EventSpec == EventInit /\ [][EventNext]_vars

\* C33: the job a flush enqueues for a buffered record has event type DELETE
\* when the record's exists is false, for a file and for a directory, CREATE
\* when the record is an existing directory and UPDATE when it is an existing
\* file, whether or not the record is marked new.
C33_EventTypeTable ==
    [][(pendingChanges # <<>> /\ pendingChanges' = <<>>) =>
          /\ Len(syncJobs') = Len(syncJobs) + Len(pendingChanges)
          /\ \A i \in DOMAIN pendingChanges :
                LET rec == pendingChanges[i]
                    row == syncJobs'[Len(syncJobs) + i]
                IN /\ row.localPath = LocalPathOf(rec.watchRoot, rec.name)
                   /\ (~rec.exists) => row.eventType = DELETE
                   /\ (rec.exists /\ rec.type = "d") => row.eventType = CREATE
                   /\ (rec.exists /\ rec.type = "f") => row.eventType = UPDATE]_vars

\* A flush has enqueued a DELETE job for a directory that is gone and an
\* UPDATE job for a file.
C33_Witness ==
    /\ \E i \in Rows : syncJobs[i].eventType = DELETE /\ KindOf(syncJobs[i].localPath[2]) = "d"
    /\ \E i \in Rows : syncJobs[i].eventType = UPDATE /\ KindOf(syncJobs[i].localPath[2]) = "f"

(***************************************************************************)
(* The debounce timer of part_005 with time: scheduleProcessing, the timer  *)
(* callback and the end of a pass.  The jobs a pass runs are not looked at  *)
(* here: a pass is the time between its flush and its return.              *)
(***************************************************************************)
DEBOUNCE_MS == 500
TimeStep == 250
DebounceEnd == 1000
DebounceEvents == 3

\* A variant of scheduleProcessing that arms without clearing.
scheduleProcessing_noClear(tm, ref, t) ==
    [timers |-> tm \cup {t + DEBOUNCE_MS}, ref |-> t + DEBOUNCE_MS]

\* scheduleProcessing at time t: clearTimeout(debounceTimer), then setTimeout.
scheduleProcessing(tm, ref, t) ==
    [timers |-> (tm \ {ref}) \cup {t + DEBOUNCE_MS}, ref |-> t + DEBOUNCE_MS]

\* A subscription event of root r with one file: queueChange(file, true).
batchArrives(r) ==
    /\ run = "watch"
    /\ listening
    /\ nEvents < env.maxEvents
    /\ nEvents' = nEvents + 1
    /\ \E rec \in BufferRecords :
         /\ rec.watchRoot = r /\ rec.name = "a" /\ ~rec.new
         /\ pendingChanges' = queueChange(pendingChanges, rec)
    /\ timers' = scheduleProcessing(timers, timerRef, now).timers
    /\ timerRef' = scheduleProcessing(timers, timerRef, now).ref
    /\ debounceTimer' = TRUE
    /\ lastBatchAt' = now
    /\ UNCHANGED <<children, findRun, tree, ensureRun, flags, signals, wmVars, subsVars>>
    /\ UNCHANGED <<storeVars, run, dryRun, isProcessing, job, queried, subscribed,
                   listening, envVars, hist, enqTick, reported, lastEnqClock,
                   passReturned, nFailures, nRuns, env>>

\* A timeout that is due runs: debounceTimer = null; processChanges(), which
\* returns at once during a pass and otherwise flushes the buffer.
debounceFires ==
    /\ run = "watch"
    /\ \E due \in timers :
         /\ due <= now
         /\ timers' = timers \ {due}
    /\ timerRef' = 0
    /\ debounceTimer' = FALSE
    /\ IF isProcessing
       THEN UNCHANGED <<syncJobs, hist, pendingChanges, isProcessing>>
       ELSE /\ syncJobs' = EnqueueChanges(syncJobs, pendingChanges, dryRun, now)
            /\ hist' = HistEnqueued(hist, pendingChanges, dryRun)
            /\ pendingChanges' = <<>>
            /\ isProcessing' = TRUE
    /\ UNCHANGED <<children, findRun, tree, ensureRun, lastBatchAt, flags, signals, wmVars, subsVars>>
    /\ UNCHANGED <<clocks, run, dryRun, job, queried, subscribed, listening, envVars,
                   enqTick, reported, lastEnqClock, passReturned, nEvents, nFailures,
                   nRuns, env>>

\* processChanges, lines 131-141: processAllPendingJobs has returned.
passEnds ==
    /\ run = "watch"
    /\ isProcessing
    /\ isProcessing' = FALSE
    /\ IF pendingChanges # <<>>
       THEN /\ timers' = scheduleProcessing(timers, timerRef, now).timers
            /\ timerRef' = scheduleProcessing(timers, timerRef, now).ref
            /\ debounceTimer' = TRUE
       ELSE UNCHANGED <<timers, timerRef, debounceTimer>>
    /\ UNCHANGED <<children, findRun, tree, ensureRun, lastBatchAt, flags, signals, wmVars, subsVars>>
    /\ UNCHANGED <<storeVars, run, dryRun, pendingChanges, job, queried, subscribed,
                   listening, envVars, histVars>>

\* Time passes, as long as the horizon is not reached or a timeout waits.
timePasses ==
    /\ now < DebounceEnd \/ \E due \in timers : due > now
    /\ now' = now + TimeStep
    /\ UNCHANGED ctlVars
    /\ UNCHANGED <<storeVars, procVars, local, svcClock, changedAt, subCursor,
                   remote, mirror, ino, histVars>>

DebounceInit ==
    /\ env = [maxEvents |-> DebounceEvents, maxFailures |-> 0, quiet |-> FALSE,
              initPaths |-> {}, togglePaths |-> {}, modifyPaths |-> {}, failPaths |-> {}]
    /\ InitCommon
    /\ run = "watch"
    /\ dryRun = FALSE

DebounceNext ==
    \/ \E r \in Roots : Subscribe(r)
    \/ Listen
    \/ \E r \in Roots : batchArrives(r)
    \/ debounceFires
    \/ passEnds
    \/ timePasses

\* The event loop runs a timeout that is due, a pass returns, time goes on.
DebounceSpec ==
    /\ DebounceInit
    /\ [][DebounceNext]_vars
    /\ WF_vars(debounceFires)
    /\ WF_vars(passEnds)
    /\ WF_vars(timePasses)

\* C34: a batch leaves exactly one timeout armed, due DEBOUNCE_MS after it; at
\* most one timeout is armed at any time; a flush starts only when
\* DEBOUNCE_MS have passed since the last batch; and a buffer that holds
\* changes is flushed in the end.
C34_Debounce ==
    /\ [][/\ Cardinality(timers') <= 1
          /\ nEvents' # nEvents => timers' = {now + DEBOUNCE_MS}
          /\ (pendingChanges # <<>> /\ pendingChanges' = <<>>) =>
                now >= lastBatchAt + DEBOUNCE_MS]_vars
    /\ (pendingChanges # <<>>) ~> (pendingChanges = <<>>)

\* A batch that arrived while a timeout was armed has been flushed, later
\* than the first timeout was due.
C34_Witness ==
    /\ nEvents >= 2
    /\ lastBatchAt > 0
    /\ lastBatchAt < DEBOUNCE_MS
    /\ pendingChanges = <<>>
    /\ isProcessing
    /\ syncJobs # <<>>
    /\ now >= lastBatchAt + DEBOUNCE_MS

(***************************************************************************)
(* One-shot runs that return: runOneShotSync of part_005, run after run,    *)
(* with no kill.                                                           *)
(***************************************************************************)
ReturnNext ==
    \/ \E r \in Roots : QueryRoot(r)
    \/ OneShotProcess
    \/ JobDone
    \/ Restart
    \/ \E p \in LocalPaths : FsChange(p)
    \/ TickToRetry
    \/ TickWithinSecond

ReturnSpec == OneShotInit /\ [][ReturnNext]_vars

\* C35: in a one-shot run the debounce timer is never armed, no row is added
\* to the job store before the query of every watch root is answered, and
\* when the run returns every change the queries handed over, of every
\* root, has been enqueued.
C35_OneShotFlush ==
    [][run = "oneshot" =>
          /\ ~debounceTimer'
          /\ Len(syncJobs') > Len(syncJobs) => queried = Roots
          /\ run' = "off" =>
                /\ pendingChanges' = <<>>
                /\ \A p \in LocalPaths : reported'[p].tick <= enqTick'[p]]_vars

(***************************************************************************)
(* Passes that are left to run: the remote operation of the job in flight   *)
(* ends sooner or later.                                                   *)
(***************************************************************************)
DryPassSpec == DrySpec /\ WF_vars(JobDone)

\* C36: processAllPendingJobs terminates: a pass that has started returns,
\* whatever the store held, however the jobs end and whether or not the run
\* is a dry run.
C36_PassTerminates ==
    isProcessing ~> ~isProcessing

\* C37: a change that is buffered stays in the buffer, under its own watch
\* root, until the flush (a later change of the same path of the same root
\* may take its place, a change of another root may not), and the flush
\* enqueues for every buffered path of every root one job with that root's
\* local path and remote path.
C37_RootsDoNotCollide ==
    [][/\ (pendingChanges' # <<>> /\ run' # "off") =>
            \A i \in DOMAIN pendingChanges :
                \E k \in DOMAIN pendingChanges' :
                    /\ pendingChanges'[k].watchRoot = pendingChanges[i].watchRoot
                    /\ pendingChanges'[k].name = pendingChanges[i].name
       /\ (pendingChanges # <<>> /\ pendingChanges' = <<>> /\ run' # "off") =>
            \A p \in Unenqueued :
                /\ Cardinality(NewRowsOf(p)) = 1
                /\ \A k \in NewRowsOf(p) :
                      syncJobs'[k].remotePath = RemotePathOf(p[1], p[2])]_vars


(***************************************************************************)
(* The subscriptions of watcher.ts over any configurations: the listener   *)
(* on the client, the list of active subscriptions and the map from        *)
(* subscription name to source path, across calls of                       *)
(* setupWatchSubscriptions and teardownWatchSubscriptions.                 *)
(***************************************************************************)
\* Listeners a behaviour may leave on the client, directories of one
\* configuration.
MaxListeners == 3
MaxDirs == 2

\* The directories a configuration may name; two of them share a base name.
WatchDirs == {"/home/u/docs", "/home/u/pics", "/mnt/docs"}

\* config.sync_dirs: lists of different directories, the empty list included.
Configs ==
    {c \in UNION {[1 .. n -> WatchDirs] : n \in 0 .. MaxDirs} :
        \A i, k \in DOMAIN c : i # k => c[i] # c[k]}

\* subscriptionToSourcePath.set(subName, watchDir).
MapSet(map, subName, watchDir) ==
    [n \in DOMAIN map \cup {subName} |-> IF n = subName THEN watchDir ELSE map[n]]

\* teardownWatchSubscriptions, lines 398-420: nothing is done when no
\* subscription is active; otherwise every 'subscription' listener is
\* removed, every subscription is unsubscribed, list and map are cleared.
Teardown(ls, act, map) ==
    IF Len(act) = 0
    THEN [listeners |-> ls, activeSubscriptions |-> act, subscriptionMap |-> map]
    ELSE [listeners |-> 0, activeSubscriptions |-> <<>>, subscriptionMap |-> <<>>]

\* setupWatchSubscriptions, lines 284-349 and the start of 351: the earlier
\* subscriptions are torn down, a listener is registered, and the step of
\* every configured directory is started.
setupWatchSubscriptionsCall(cfg) ==
    /\ pendingDirs = {}
    /\ listeners < MaxListeners
    /\ LET t == Teardown(listeners, activeSubscriptions, subscriptionMap)
       IN  /\ listeners' = t.listeners + 1
           /\ activeSubscriptions' = t.activeSubscriptions
           /\ subscriptionMap' = t.subscriptionMap
    /\ config' = cfg
    /\ pendingDirs' = {cfg[i] : i \in DOMAIN cfg}
    /\ UNCHANGED lastEvent
    /\ UNCHANGED <<children, findRun, tree, ensureRun, timers, timerRef, lastBatchAt,
                   flags, signals, wmVars>>
    /\ UNCHANGED <<storeVars, procVars, envVars, histVars>>

\* setupWatchSubscriptions, lines 352-388, for one directory: watch-project
\* and subscribe are answered; when both succeed the subscription is pushed
\* to the list and entered in the map under its name, when one fails the
\* step ends with neither.
subscribeStep(watchDir, ok) ==
    /\ watchDir \in pendingDirs
    /\ pendingDirs' = pendingDirs \ {watchDir}
    /\ IF ok
       THEN /\ activeSubscriptions' =
                  Append(activeSubscriptions,
                         [root |-> watchDir, subName |-> SubNameOf(watchDir)])
            /\ subscriptionMap' = MapSet(subscriptionMap, SubNameOf(watchDir), watchDir)
       ELSE UNCHANGED <<activeSubscriptions, subscriptionMap>>
    /\ UNCHANGED <<config, listeners, lastEvent>>
    /\ UNCHANGED <<children, findRun, tree, ensureRun, timers, timerRef, lastBatchAt,
                   flags, signals, wmVars>>
    /\ UNCHANGED <<storeVars, procVars, envVars, histVars>>

\* teardownWatchSubscriptions, lines 398-420, called on its own.
teardownWatchSubscriptions ==
    /\ pendingDirs = {}
    /\ LET t == Teardown(listeners, activeSubscriptions, subscriptionMap)
       IN  /\ listeners' = t.listeners
           /\ activeSubscriptions' = t.activeSubscriptions
           /\ subscriptionMap' = t.subscriptionMap
    /\ UNCHANGED <<config, pendingDirs, lastEvent>>
    /\ UNCHANGED <<children, findRun, tree, ensureRun, timers, timerRef, lastBatchAt,
                   flags, signals, wmVars>>
    /\ UNCHANGED <<storeVars, procVars, envVars, histVars>>

\* The service sends an event of the i-th active subscription: every
\* registered listener runs lines 293-344, looks the name of the event up in
\* the map, checks that the directory found is configured and hands the
\* files to the batch handler under that directory.
subscriptionEvent(i) ==
    /\ i \in DOMAIN activeSubscriptions
    /\ listeners > 0
    /\ LET sub == activeSubscriptions[i]
           resolvedRoot == subscriptionMap[sub.subName]
       IN  lastEvent' =
             [from |-> sub.root,
              as |-> resolvedRoot,
              handed |-> IF \E k \in DOMAIN config : config[k] = resolvedRoot
                         THEN listeners ELSE 0]
    /\ UNCHANGED <<config, pendingDirs, listeners, activeSubscriptions, subscriptionMap>>
    /\ UNCHANGED <<children, findRun, tree, ensureRun, timers, timerRef, lastBatchAt,
                   flags, signals, wmVars>>
    /\ UNCHANGED <<storeVars, procVars, envVars, histVars>>

SubsInit ==
    /\ env = [maxEvents |-> 0, maxFailures |-> 0, quiet |-> TRUE,
              initPaths |-> {}, togglePaths |-> {}, modifyPaths |-> {}, failPaths |-> {}]
    /\ InitCommon
    /\ run = "watch"
    /\ dryRun = FALSE

SubsNext ==
    \/ \E cfg \in Configs : setupWatchSubscriptionsCall(cfg)
    \/ \E watchDir \in WatchDirs, ok \in BOOLEAN : subscribeStep(watchDir, ok)
    \/ teardownWatchSubscriptions
    \/ \E i \in 1 .. MaxDirs : subscriptionEvent(i)

SubsSpec == SubsInit /\ [][SubsNext]_vars

\* C38: after any sequence of setupWatchSubscriptions and
\* teardownWatchSubscriptions calls, for any configurations (the empty one
\* and one whose subscribe step failed included), at most one 'subscription'
\* listener is registered on the client, and every subscription event is
\* handed to the batch handler at most once.
C38_OneListener ==
    /\ listeners <= 1
    /\ lastEvent.handed <= 1


\* C39: every subscription event is attributed to the watch root whose
\* subscription produced it: for any configured watch roots, two roots of
\* the same base name included, different roots have different subscription
\* names and the map from name to root holds one entry per active
\* subscription.
C39_EventsAttributed ==
    /\ \A i, k \in DOMAIN activeSubscriptions :
          activeSubscriptions[i].root # activeSubscriptions[k].root
              => activeSubscriptions[i].subName # activeSubscriptions[k].subName
    /\ Cardinality(DOMAIN subscriptionMap) = Len(activeSubscriptions)
    /\ lastEvent.as = lastEvent.from


\* C40: the executor never deletes a remote node for good: for every DELETE
\* job processNextJob calls deleteNode with permanent = false, so the only
\* mutating call a visit of a DELETE job issues on the drive is trashNodes,
\* and no visit of any job issues deleteNodes.
C40_NeverPermanent ==
    \A i \in DOMAIN hist \cap DOMAIN syncJobs :
        /\ "deleteNodes" \notin hist[i].calls
        /\ syncJobs[i].eventType = DELETE => hist[i].calls \subseteq {"trashNodes"}

\* A DELETE job whose node was on the drive has been executed: its visit
\* moved the node to the trash and the job is SYNCED.
C40_Witness ==
    \E i \in DOMAIN hist \cap DOMAIN syncJobs :
        /\ syncJobs[i].eventType = DELETE
        /\ syncJobs[i].status = SYNCED
        /\ hist[i].calls = {"trashNodes"}

====
